---- MODULE Spec2Model ----
(***************************************************************************)
(* Model of the semantic DOM of taplo (taplo/src/dom.rs): RootNode::cast   *)
(* lifts the top-level children of a syntax tree into a flat, ordered map  *)
(* of entries, then merges, normalizes and assigns table spans.            *)
(*                                                                         *)
(* A document is a sequence of top-level syntax nodes.  The lift loop is   *)
(* modelled one child per step; the code after the loop (the additional    *)
(* checks, from_map, merge, normalize, set_table_spans) is the step        *)
(* Finish.  Text is a sequence of one-character strings, offsets are       *)
(* 0-based byte offsets, Option<T> is <<>> (None) or <<x>> (Some(x)).      *)
(***************************************************************************)
EXTENDS Integers, Sequences, FiniteSets, TLC

VARIABLES
    doc,            \* syntax_node.children(): the top-level nodes seen so far
    entries,        \* IndexMap<KeyNode, EntryNode>, as a sequence of [k, e]
    prefixes,       \* Vec<Option<KeyNode>>
    prefix,         \* Option<KeyNode>
    tables,         \* Vec<Vec<KeyNode>>
    errors,         \* Vec<Error>, up to the test errors.is_empty()
    final_entries,  \* RootNode.entries of the returned root
    root_errors,    \* RootNode.errors of the returned root
    merge_calls,    \* history: the merge_entry calls made by the merge pass
    keys,           \* the KeyNode values the key methods are applied to
    handler,        \* toml_to_json: its position, the parse errors, the response
    world,          \* World: configuration, schemas, schema_associations, documents
    tasks,          \* the update_configuration calls: position and locals
    pc              \* "lift" (in the loop), "done" (returned), "panic"

vars == <<doc, entries, prefixes, prefix, tables, errors, final_entries, root_errors,
          merge_calls, keys, handler, world, tasks, pc>>

\* ------------------------------------------------------------------ bounds

\* Number of top-level children of the documents explored.
MaxChildren == 3

\* ------------------------------------------------------------ small helpers

None == <<>>
Some(x) == <<x>>
IsSome(o) == Len(o) > 0
Unwrap(o) == o[1]

Min(a, b) == IF a < b THEN a ELSE b
Max(a, b) == IF a < b THEN b ELSE a

Range(s) == {s[i] : i \in 1..Len(s)}

RECURSIVE Concat(_)
Concat(ss) == IF Len(ss) = 0 THEN <<>> ELSE Head(ss) \o Concat(Tail(ss))

\* str::starts_with
starts_with(s, p) == Len(p) <= Len(s) /\ SubSeq(s, 1, Len(p)) = p

\* str::trim_start_matches(c)
RECURSIVE trim_start_matches(_, _)
trim_start_matches(s, c) ==
    IF Len(s) > 0 /\ Head(s) = c THEN trim_start_matches(Tail(s), c) ELSE s

\* str::trim_end_matches(c)
RECURSIVE trim_end_matches(_, _)
trim_end_matches(s, c) ==
    IF Len(s) > 0 /\ s[Len(s)] = c
    THEN trim_end_matches(SubSeq(s, 1, Len(s) - 1), c)
    ELSE s

\* --------------------------------------------------------------- KeyNode
\* A KeyNode is [syntax, mask_left, mask_right, mask_visible, idents, index];
\* an ident is a token [text, start].

\* KeyNode::idents: idents[..len - mask_right].iter().skip(mask_left)
idents(k) == SubSeq(k.idents, k.mask_left + 1, Len(k.idents) - k.mask_right)

key_count(k) == k.mask_visible

\* The text of one ident with its quotes removed.
unquote(s) ==
    IF Len(s) > 0 /\ (Head(s) = "\"" \/ Head(s) = "'")
    THEN SubSeq(s, 2, Len(s) - 1)
    ELSE s

keys_str(k) == [i \in 1..Len(idents(k)) |-> unquote(idents(k)[i].text)]

\* Mutant: compares one segment fewer than the shorter key has.
is_part_of_short(self, other) ==
    /\ ~(other.mask_visible < self.mask_visible)
    /\ \A i \in 1..(Min(Len(keys_str(self)), Len(keys_str(other))) - 1) :
          keys_str(self)[i] = keys_str(other)[i]

\* Mutant: without the comparison of the two counts.
is_part_of_zip_only(self, other) ==
    \A i \in 1..Min(Len(keys_str(self)), Len(keys_str(other))) :
        keys_str(self)[i] = keys_str(other)[i]

is_part_of(self, other) ==
    /\ ~(other.mask_visible < self.mask_visible)
    /\ \A i \in 1..Min(Len(keys_str(self)), Len(keys_str(other))) :
          keys_str(self)[i] = keys_str(other)[i]

contains(self, other) == is_part_of(other, self)

\* usize::checked_sub(n).unwrap_or_default()
checked_sub_or_default(a, n) == IF n > a THEN 0 ELSE a - n

\* Mutant: without the clamp that keeps one segment.
outer_unclamped(self, n) ==
    LET skip == checked_sub_or_default(self.mask_visible, n)
    IN  [self EXCEPT !.mask_right = @ + skip, !.mask_visible = @ - skip]

outer(self, n) ==
    LET skip == Min(self.mask_visible - 1, checked_sub_or_default(self.mask_visible, n))
    IN  [self EXCEPT !.mask_right = @ + skip, !.mask_visible = @ - skip]

\* Mutant: hides one segment more than asked.
inner_one_more(self, n) ==
    LET skip == Min(self.mask_visible - 1, n + 1)
    IN  [self EXCEPT !.mask_left = @ + skip, !.mask_visible = @ - skip]

inner(self, n) ==
    LET skip == Min(self.mask_visible - 1, n)
    IN  [self EXCEPT !.mask_left = @ + skip, !.mask_visible = @ - skip]

RECURSIVE common_count_from(_, _, _)
common_count_from(a, b, i) ==
    IF i <= Len(a) /\ i <= Len(b) /\ a[i] = b[i]
    THEN 1 + common_count_from(a, b, i + 1)
    ELSE 0

\* Mutant: stops counting after the first common segment.
common_prefix_count_first(self, other) ==
    Min(1, common_count_from(keys_str(self), keys_str(other), 1))

common_prefix_count(self, other) == common_count_from(keys_str(self), keys_str(other), 1)

eq_keys(self, other) == key_count(self) = key_count(other) /\ is_part_of(self, other)

with_prefix(self, other) ==
    LET new_idents == idents(other) \o idents(self)
    IN  [self EXCEPT !.mask_visible = Len(new_idents),
                     !.idents = new_idents,
                     !.mask_left = 0,
                     !.mask_right = 0,
                     !.index = other.index]

\* Mutant: always skips one segment.
without_prefix_one(self, other) == inner(self, 1)

without_prefix(self, other) ==
    LET count == common_prefix_count(self, other)
    IN  IF count > 0 THEN inner(self, count) ELSE self

\* Mutant: the index is one more than asked.
with_index_next(self, index) == [self EXCEPT !.index = index + 1]
with_index(self, index) == [self EXCEPT !.index = index]

\* Mutant: keeps one segment fewer than prefix does.
key_prefix_two(self) == outer(self, key_count(self) - 2)

key_prefix(self) == outer(self, key_count(self) - 1)

key_last(self) == inner(self, key_count(self))

\* Mutant: equality of the underlying tokens instead of their strings.
key_eq_tokens(self, other) == idents(self) = idents(other) /\ self.index = other.index

\* impl PartialEq for KeyNode
key_eq(self, other) == eq_keys(self, other) /\ self.index = other.index

\* impl Hash for KeyNode: the values written to the hasher, in order.
key_hash(self) == keys_str(self) \o <<self.index>>

\* ------------------------------------------------------------ syntax tree
\* The lossless syntax tree handed over by the parser.  A node or token is
\* [kind, start, text, children]: tokens carry their text and no children,
\* nodes carry children (nodes and tokens) and no text of their own.

NodeKinds == {"ROOT", "TABLE_HEADER", "TABLE_ARRAY_HEADER", "ENTRY", "KEY", "VALUE",
              "ARRAY", "INLINE_TABLE"}

Tok(kind, text, start) == [kind |-> kind, start |-> start, text |-> text, children |-> <<>>]
SynNode(kind, start, children) ==
    [kind |-> kind, start |-> start, text |-> <<>>, children |-> children]

is_node(n) == n.kind \in NodeKinds

\* SyntaxNode::to_string: the source text the element covers.
RECURSIVE to_string(_)
to_string(n) ==
    IF is_node(n)
    THEN Concat([i \in 1..Len(n.children) |-> to_string(n.children[i])])
    ELSE n.text

\* text_range().start() and text_range().end()
range_start(n) == n.start
range_end(n) == n.start + Len(to_string(n))

\* SyntaxNode::first_child: the first child that is a node.
first_child(n) ==
    LET idx == {i \in 1..Len(n.children) : is_node(n.children[i])}
    IN  IF idx = {} THEN None
        ELSE Some(n.children[CHOOSE i \in idx : \A j \in idx : i <= j])

\* first_child().and_then(next_sibling): the second child that is a node.
second_child(n) ==
    LET idx == {i \in 1..Len(n.children) : is_node(n.children[i])}
        rest == idx \ {CHOOSE i \in idx : \A j \in idx : i <= j}
    IN  IF idx = {} \/ rest = {} THEN None
        ELSE Some(n.children[CHOOSE i \in rest : \A j \in rest : i <= j])

first_child_or_token(n) == IF Len(n.children) = 0 THEN None ELSE Some(n.children[1])

\* The parser's layout of a dotted key: IDENT (PERIOD IDENT)*.
RECURSIVE KeyChildren(_, _)
KeyChildren(segs, start) ==
    IF Len(segs) = 0 THEN <<>>
    ELSE LET t == Tok("IDENT", Head(segs), start)
         IN  IF Len(segs) = 1 THEN <<t>>
             ELSE <<t, Tok("PERIOD", <<".">>, start + Len(Head(segs)))>>
                  \o KeyChildren(Tail(segs), start + Len(Head(segs)) + 1)

SynKey(segs, start) == SynNode("KEY", start, KeyChildren(segs, start))

\* A value is described by [kind, text] (a scalar), [kind, items] (an array)
\* or [kind, entries] (an inline table of [key, value] descriptions).
RECURSIVE SynValue(_, _)
RECURSIVE SynEntry(_, _)
RECURSIVE SynList(_, _, _)

\* Comma-separated values (entry = FALSE) or entries (entry = TRUE).
SynList(ds, start, entry) ==
    IF Len(ds) = 0 THEN <<>>
    ELSE LET n == IF entry THEN SynEntry(Head(ds), start) ELSE SynValue(Head(ds), start)
         IN  IF Len(ds) = 1 THEN <<n>>
             ELSE <<n, Tok("COMMA", <<",">>, range_end(n))>>
                  \o SynList(Tail(ds), range_end(n) + 1, entry)

SynValue(vd, start) ==
    LET tok ==
          CASE vd.kind = "ARRAY" ->
                 LET items == SynList(vd.items, start + 1, FALSE)
                     close == IF Len(items) = 0 THEN start + 1
                              ELSE range_end(items[Len(items)])
                 IN  SynNode("ARRAY", start,
                             <<Tok("BRACKET_START", <<"[">>, start)>> \o items
                             \o <<Tok("BRACKET_END", <<"]">>, close)>>)
            [] vd.kind = "INLINE_TABLE" ->
                 LET ents == SynList(vd.entries, start + 1, TRUE)
                     close == IF Len(ents) = 0 THEN start + 1
                              ELSE range_end(ents[Len(ents)])
                 IN  SynNode("INLINE_TABLE", start,
                             <<Tok("BRACE_START", <<"{">>, start)>> \o ents
                             \o <<Tok("BRACE_END", <<"}">>, close)>>)
            [] OTHER -> Tok(vd.kind, vd.text, start)
    IN  SynNode("VALUE", start, <<tok>>)

SynEntry(ed, start) ==
    LET k == SynKey(ed.key, start)
    IN  SynNode("ENTRY", start,
                <<k, Tok("EQ", <<"=">>, range_end(k)), SynValue(ed.value, range_end(k) + 1)>>)

\* [key] and [[key]]; a header without a key has no KEY child.
SynHeader(kind, segs, start) ==
    LET open == IF kind = "TABLE_ARRAY_HEADER" THEN <<"[", "[">> ELSE <<"[">>
        close == IF kind = "TABLE_ARRAY_HEADER" THEN <<"]", "]">> ELSE <<"]">>
        k == SynKey(segs, start + Len(open))
        kend == IF Len(segs) = 0 THEN start + Len(open) ELSE range_end(k)
    IN  SynNode(kind, start,
                <<Tok("BRACKET_START", open, start)>>
                \o (IF Len(segs) = 0 THEN <<>> ELSE <<k>>)
                \o <<Tok("BRACKET_END", close, kend)>>)

\* ------------------------------------------------------------------- casts

KeyNode_cast(element) ==
    IF element.kind # "KEY" THEN None
    ELSE LET i == SelectSeq(element.children, LAMBDA c : ~is_node(c) /\ c.kind = "IDENT")
         IN  IF Len(i) = 0 THEN None
             ELSE Some([mask_left |-> 0, mask_right |-> 0, mask_visible |-> Len(i),
                        idents |-> i, index |-> 0, syntax |-> element])

ScalarKinds == {"STRING", "MULTI_LINE_STRING", "STRING_LITERAL", "MULTI_LINE_STRING_LITERAL",
                "INTEGER", "INTEGER_HEX", "INTEGER_OCT", "INTEGER_BIN", "FLOAT", "BOOL", "DATE"}

\* The ValueNode variant a scalar syntax kind is cast to.
ScalarType(kind) ==
    CASE kind \in {"STRING", "MULTI_LINE_STRING", "STRING_LITERAL", "MULTI_LINE_STRING_LITERAL"}
           -> "String"
      [] kind \in {"INTEGER", "INTEGER_HEX", "INTEGER_OCT", "INTEGER_BIN"} -> "Integer"
      [] kind = "FLOAT" -> "Float"
      [] kind = "BOOL" -> "Bool"
      [] kind = "DATE" -> "Date"

Invalid(o) == [type |-> "Invalid", syntax |-> o]
Empty == [type |-> "Empty"]

\* filter_map(Cast::cast): the Some results, in order.
RECURSIVE filter_some(_)
filter_some(os) ==
    IF Len(os) = 0 THEN <<>>
    ELSE (IF IsSome(Head(os)) THEN <<Unwrap(Head(os))>> ELSE <<>>) \o filter_some(Tail(os))

RECURSIVE ValueNode_cast(_)
RECURSIVE EntryNode_cast(_)
RECURSIVE TableNode_cast(_)
RECURSIVE ArrayNode_cast(_)

TableNode_cast(syntax) ==
    CASE syntax.kind \in {"TABLE_HEADER", "TABLE_ARRAY_HEADER"} ->
           LET fc == first_child(syntax)
               key == IF IsSome(fc) THEN KeyNode_cast(Unwrap(fc)) ELSE None
           IN  IF ~IsSome(key) THEN None
               ELSE Some([type |-> "Table", entries |-> <<>>, next_entry |-> None,
                          pseudo |-> FALSE, array |-> syntax.kind = "TABLE_ARRAY_HEADER",
                          syntax |-> syntax])
      [] syntax.kind = "INLINE_TABLE" ->
           Some([type |-> "Table",
                 entries |-> filter_some([i \in 1..Len(syntax.children) |->
                                             EntryNode_cast(syntax.children[i])]),
                 next_entry |-> None, pseudo |-> FALSE, array |-> FALSE,
                 syntax |-> syntax])
      [] OTHER -> None

ArrayNode_cast(syntax) ==
    CASE syntax.kind = "ARRAY" ->
           Some([type |-> "Array",
                 items |-> filter_some([i \in 1..Len(syntax.children) |->
                                           ValueNode_cast(syntax.children[i])]),
                 next_header_start |-> None, tables |-> FALSE, syntax |-> syntax])
      [] syntax.kind = "TABLE_ARRAY_HEADER" ->
           Some([type |-> "Array", items |-> <<>>, next_header_start |-> None,
                 tables |-> FALSE, syntax |-> syntax])
      [] OTHER -> None

ValueNode_cast(element) ==
    IF element.kind # "VALUE" THEN None
    ELSE LET c == first_child_or_token(element)
             v == IF ~IsSome(c) THEN None
                  ELSE CASE Unwrap(c).kind = "INLINE_TABLE" -> TableNode_cast(Unwrap(c))
                         [] Unwrap(c).kind = "ARRAY" -> ArrayNode_cast(Unwrap(c))
                         [] Unwrap(c).kind \in ScalarKinds ->
                              Some([type |-> ScalarType(Unwrap(c).kind), syntax |-> Unwrap(c)])
                         [] OTHER -> None
         IN  IF IsSome(v) THEN v ELSE Some(Invalid(Some(element)))

EntryNode_cast(element) ==
    IF element.kind # "ENTRY" THEN None
    ELSE LET fc == first_child_or_token(element)
             key == IF IsSome(fc) THEN KeyNode_cast(Unwrap(fc)) ELSE None
             sc == second_child(element)
             cast == IF IsSome(sc) THEN ValueNode_cast(Unwrap(sc)) ELSE None
             val == IF IsSome(cast) THEN Unwrap(cast) ELSE Invalid(None)
         IN  IF ~IsSome(key) THEN None
             ELSE Some([key |-> Unwrap(key), value |-> val, next_entry |-> None,
                        syntax |-> element])

\* ------------------------------------------------------------------ errors

DuplicateKey(first, second) == [type |-> "DuplicateKey", first |-> first, second |-> second]
ExpectedTable(target, key) == [type |-> "ExpectedTable", target |-> target, key |-> key]
ExpectedTableArray(target, key) ==
    [type |-> "ExpectedTableArray", target |-> target, key |-> key]
TopLevelTableDefined(table, key) ==
    [type |-> "TopLevelTableDefined", table |-> table, key |-> key]
InlineTable(target, key) == [type |-> "InlineTable", target |-> target, key |-> key]
Spanned(range, message) == [type |-> "Spanned", range |-> range, message |-> message]

\* ------------------------------------------------------------- merge pass
\* The passes thread acc = [errors, calls, panic]: the error vector, the
\* history of merge_entry calls made by the loops of merge, and whether a
\* panic site was reached.

is_part_of_array(t) == t.array
\* Mutant: takes no table for an inline one.
is_inline_never(t) == FALSE
is_inline(t) == t.syntax.kind = "INLINE_TABLE"
is_pseudo(t) == t.pseudo

MergeOk(merged, old, acc) == [tag |-> IF merged THEN "true" ELSE "false", old |-> old,
                              err |-> None, acc |-> acc]
MergeErr(err, old, acc) == [tag |-> "err", old |-> old, err |-> Some(err), acc |-> acc]
MergePanic(old, acc) == [tag |-> "panic", old |-> old, err |-> None,
                         acc |-> [acc EXCEPT !.panic = TRUE]]

RECURSIVE merge(_, _)
RECURSIVE merge_entry(_, _, _)
RECURSIVE merge_existing(_, _, _, _)
RECURSIVE merge_loop(_, _, _)

merge_entry(old_entry, new_entry, acc) ==
    LET old_key == old_entry.key
        new_key == new_entry.key
        to_insert == [new_entry EXCEPT !.key = without_prefix(new_key, old_key)]
        \* Push to_insert into the last item of the array of tables and merge it.
        into_last_item ==
            LET items == old_entry.value.items
            IN  IF Len(items) = 0 THEN MergePanic(old_entry, acc)
                ELSE IF items[Len(items)].type = "Table"
                THEN LET m == merge(Append(items[Len(items)].entries, to_insert), acc)
                     IN  [MergeOk(TRUE,
                                  [old_entry EXCEPT
                                      !.value.items[Len(items)].entries = m.entries],
                                  m.acc)
                          EXCEPT !.tag = IF m.acc.panic THEN "panic" ELSE "true"]
                ELSE MergePanic(old_entry, acc)
    IN  IF is_part_of(old_key, new_key) THEN
            IF old_entry.value.type = "Table" THEN
                IF is_inline(old_entry.value)
                THEN MergeErr(InlineTable(old_entry.key, new_entry.key), old_entry, acc)
                ELSE LET m == merge(Append(old_entry.value.entries, to_insert), acc)
                     IN  [MergeOk(TRUE, [old_entry EXCEPT !.value.entries = m.entries],
                                  m.acc)
                          EXCEPT !.tag = IF m.acc.panic THEN "panic" ELSE "true"]
            ELSE IF old_entry.value.type = "Array" THEN
                IF ~old_entry.value.tables
                THEN MergeErr(ExpectedTableArray(old_entry.key, new_entry.key),
                              old_entry, acc)
                ELSE IF new_entry.value.type = "Table" THEN
                    IF eq_keys(old_key, new_key) /\ new_entry.value.array
                    THEN MergeOk(TRUE,
                                 [old_entry EXCEPT !.value.items =
                                     Append(@, [new_entry.value EXCEPT !.array = FALSE])],
                                 acc)
                    ELSE into_last_item
                ELSE IF new_entry.value.type = "Empty" THEN MergePanic(old_entry, acc)
                ELSE into_last_item
            ELSE IF old_entry.value.type = "Empty" THEN MergePanic(old_entry, acc)
            ELSE MergeErr(ExpectedTable(old_entry.key, new_entry.key), old_entry, acc)
        ELSE IF is_part_of(new_key, old_key) THEN
            LET r == merge_entry(new_entry, old_entry, acc)
            IN  IF r.tag = "true" THEN MergeOk(TRUE, r.old, r.acc)
                ELSE IF r.tag = "false" THEN MergeOk(FALSE, old_entry, r.acc)
                ELSE [r EXCEPT !.old = old_entry]
        ELSE
            LET common_count == common_prefix_count(old_entry.key, new_entry.key)
            IN  IF common_count > 0
                THEN LET common_prefix == outer(old_entry.key, common_count)
                         a == [old_entry EXCEPT !.key = without_prefix(@, common_prefix)]
                         b == [new_entry EXCEPT !.key = without_prefix(@, common_prefix)]
                     IN  MergeOk(TRUE,
                                 [old_entry EXCEPT
                                     !.key = common_prefix,
                                     !.value = [type |-> "Table",
                                                syntax |-> old_entry.syntax,
                                                next_entry |-> None,
                                                array |-> FALSE,
                                                pseudo |-> TRUE,
                                                entries |-> <<a, b>>]],
                                 acc)
                ELSE MergeOk(FALSE, old_entry, acc)

\* The inner loop of merge: try the entries already placed, from the i-th on.
\* Returns the placed entries, should_insert and acc.
merge_existing(new_entries, i, entry, acc) ==
    IF i > Len(new_entries)
    THEN [entries |-> new_entries, should_insert |-> TRUE, acc |-> acc]
    ELSE LET r == merge_entry(new_entries[i], entry, acc)
             call == [old |-> new_entries[i], new |-> entry, tag |-> r.tag,
                      err |-> r.err, old_after |-> r.old,
                      pushed |-> Len(r.acc.errors) - Len(acc.errors)]
             acc1 == [r.acc EXCEPT !.calls = @ \cup {call}]
             placed == [new_entries EXCEPT ![i] = r.old]
         IN  IF r.tag = "false" THEN merge_existing(placed, i + 1, entry, acc1)
             ELSE IF r.tag = "err"
             THEN [entries |-> placed, should_insert |-> FALSE,
                   acc |-> [acc1 EXCEPT !.errors = Append(@, Unwrap(r.err))]]
             ELSE [entries |-> placed, should_insert |-> FALSE, acc |-> acc1]

\* Mutant: the first table of an array of tables keeps its array flag.
array_from_table_keep(value) ==
    IF value.type = "Table" /\ value.array
    THEN [type |-> "Array", syntax |-> value.syntax, items |-> <<value>>,
          next_header_start |-> None, tables |-> TRUE]
    ELSE value

\* The transformation of an inserted entry's value: a Table with array = true
\* becomes an Array (tables = true) holding that Table with array = false.
array_from_table(value) ==
    IF value.type = "Table" /\ value.array
    THEN [type |-> "Array", syntax |-> value.syntax,
          items |-> <<[value EXCEPT !.array = FALSE]>>,
          next_header_start |-> None, tables |-> TRUE]
    ELSE value

\* The outer loop of merge over the entries taken out of self.
merge_loop(rest, new_entries, acc) ==
    IF Len(rest) = 0 \/ acc.panic THEN [entries |-> new_entries, acc |-> acc]
    ELSE LET entry == [Head(rest) EXCEPT !.key = with_index(@, 0)]
             r == merge_existing(new_entries, 1, entry, acc)
         IN  merge_loop(Tail(rest),
                        IF r.should_insert
                        THEN Append(r.entries, [entry EXCEPT !.value = array_from_table(@)])
                        ELSE r.entries,
                        r.acc)

merge(self, acc) == merge_loop(self, <<>>, acc)

\* --------------------------------------------------------- normalize pass

\* Mutant: only one level of a dotted key is expanded.
EntryNode_normalize_once(self) ==
    IF key_count(self.key) > 1
    THEN [self EXCEPT !.key = key_prefix(self.key),
                      !.value = [type |-> "Table", syntax |-> key_last(self.key).syntax,
                                 array |-> FALSE, next_entry |-> None, pseudo |-> TRUE,
                                 entries |-> <<[syntax |-> self.syntax,
                                                key |-> key_last(self.key),
                                                next_entry |-> None,
                                                value |-> self.value]>>]]
    ELSE self

RECURSIVE EntryNode_normalize(_)
EntryNode_normalize(self) ==
    IF key_count(self.key) > 1
    THEN LET new_key == key_prefix(self.key)
             inner_key == key_last(self.key)
             value == self.value
             is_array_table == IF value.type = "Table" THEN is_part_of_array(value)
                               ELSE FALSE
             inner_entry == [syntax |-> self.syntax, key |-> inner_key,
                             next_entry |-> None, value |-> value]
         IN  EntryNode_normalize(
                 [self EXCEPT !.value = [type |-> "Table", syntax |-> inner_key.syntax,
                                         array |-> is_array_table, next_entry |-> None,
                                         pseudo |-> TRUE, entries |-> <<inner_entry>>],
                              !.key = new_key])
    ELSE self

RECURSIVE Entries_normalize(_)
RECURSIVE normalize_value(_)

\* The descent of Entries::normalize into the tables and arrays of a value.
normalize_value(v) ==
    IF v.type = "Table" THEN [v EXCEPT !.entries = Entries_normalize(@)]
    ELSE IF v.type = "Array"
    THEN [v EXCEPT !.items = [i \in 1..Len(@) |-> normalize_value(@[i])]]
    ELSE v

Entries_normalize(self) ==
    [i \in 1..Len(self) |->
        LET e == EntryNode_normalize(self[i])
        IN  [e EXCEPT !.value = normalize_value(@)]]

\* -------------------------------------------------------------- span pass

\* The header text without its brackets.
header_name(text) == trim_end_matches(trim_start_matches(text, "["), "]")

\* The scan of root_syntax.children() for the header that ends the span of
\* the header `syntax`: the first node of one of `kinds` that starts at or
\* after the end of `syntax` and whose name does not start with the name of
\* `syntax` (or, if or_equal, whose text equals the text of `syntax`).
next_header(syntax, root_children, kinds, or_equal) ==
    LET entry_header_string == to_string(syntax)
        hit == {i \in 1..Len(root_children) :
                  /\ ~(range_start(root_children[i]) < range_end(syntax))
                  /\ root_children[i].kind \in kinds
                  /\ \/ ~starts_with(header_name(to_string(root_children[i])),
                                     header_name(entry_header_string))
                     \/ or_equal /\ to_string(root_children[i]) = entry_header_string}
    IN  IF hit = {} THEN None
        ELSE Some(range_start(root_children[CHOOSE i \in hit : \A j \in hit : i <= j]))

\* next_entry of an entry created from a header: the next header, or `end`.
span_end(syntax, root_children, kinds, or_equal, end) ==
    LET n == next_header(syntax, root_children, kinds, or_equal)
    IN  IF IsSome(n) THEN n ELSE end

RECURSIVE Entries_set_table_spans(_, _, _)
RECURSIVE ArrayNode_set_table_spans(_, _, _)
RECURSIVE spans_from(_, _, _, _)
RECURSIVE item_spans_from(_, _, _, _)

\* Both return [v, panic]: the value with its spans set, and whether the
\* panic "expected table" was reached.
ArrayNode_set_table_spans(self, root_children, end) ==
    IF ~self.tables THEN [v |-> self, panic |-> FALSE]
    ELSE LET r == item_spans_from(self.items, 1, root_children, end)
         IN  [v |-> [self EXCEPT !.items = r.v], panic |-> r.panic]

item_spans_from(items, i, root_children, end) ==
    IF i > Len(items) THEN [v |-> items, panic |-> FALSE]
    ELSE IF items[i].type # "Table" THEN [v |-> items, panic |-> TRUE]
    ELSE LET table == items[i]
             sub == Entries_set_table_spans(table.entries, root_children, end)
             done == [table EXCEPT
                         !.next_entry = span_end(table.syntax, root_children,
                                                 {"TABLE_ARRAY_HEADER"}, TRUE, end),
                         !.entries = sub.v]
         IN  IF sub.panic THEN [v |-> [items EXCEPT ![i] = done], panic |-> TRUE]
             ELSE item_spans_from([items EXCEPT ![i] = done], i + 1, root_children, end)

spans_from(self, i, root_children, end) ==
    IF i > Len(self) THEN [v |-> self, panic |-> FALSE]
    ELSE LET entry == self[i]
             e1 == IF entry.syntax.kind = "TABLE_HEADER"
                   THEN [entry EXCEPT !.next_entry =
                            span_end(entry.syntax, root_children,
                                     {"TABLE_HEADER", "TABLE_ARRAY_HEADER"}, FALSE, end)]
                   ELSE entry
             e2 == IF e1.syntax.kind = "TABLE_ARRAY_HEADER"
                   THEN [e1 EXCEPT !.next_entry =
                            span_end(e1.syntax, root_children,
                                     {"TABLE_ARRAY_HEADER"}, FALSE, end)]
                   ELSE e1
             val == IF e2.value.type = "Table"
                    THEN LET r == Entries_set_table_spans(e2.value.entries,
                                                          root_children, end)
                         IN  [v |-> [e2.value EXCEPT !.next_entry = e2.next_entry,
                                                     !.entries = r.v],
                              panic |-> r.panic]
                    ELSE IF e2.value.type = "Array" /\ e2.value.tables
                    THEN ArrayNode_set_table_spans(e2.value, root_children, end)
                    ELSE [v |-> e2.value, panic |-> FALSE]
             done == [self EXCEPT ![i] = [e2 EXCEPT !.value = val.v]]
         IN  IF val.panic THEN [v |-> done, panic |-> TRUE]
             ELSE spans_from(done, i + 1, root_children, end)

Entries_set_table_spans(self, root_children, end) == spans_from(self, 1, root_children, end)

\* ------------------------------------------------------------ text ranges

\* TextRange as <<start, end>>; cover and cover_offset as in text-size.
syntax_range(n) == <<range_start(n), range_end(n)>>
cover(r, other) == <<Min(r[1], other[1]), Max(r[2], other[2])>>
cover_offset(r, offset) == <<Min(r[1], offset), Max(r[2], offset)>>

RECURSIVE cover_all(_, _)
cover_all(r, ranges) ==
    IF Len(ranges) = 0 THEN r ELSE cover_all(cover(r, Head(ranges)), Tail(ranges))

\* KeyNode::text_range: the visible tokens covered.
KeyNode_text_range(k) ==
    cover_all(syntax_range(idents(k)[1]),
              [i \in 1..Len(idents(k)) |-> syntax_range(idents(k)[i])])

\* EntryNode::text_range
EntryNode_text_range(e) ==
    IF IsSome(e.next_entry) THEN cover_offset(syntax_range(e.syntax), Unwrap(e.next_entry))
    ELSE syntax_range(e.syntax)

RECURSIVE ValueNode_text_range(_)
RECURSIVE TableNode_text_range(_)
RECURSIVE ArrayNode_text_range(_)
RECURSIVE Entries_text_range(_)

\* Entries::text_range: the first entry gives its key's range, every later
\* entry covers its value's range.
Entries_text_range(es) ==
    IF Len(es) = 0 THEN None
    ELSE Some(cover_all(KeyNode_text_range(es[1].key),
                        [i \in 1..(Len(es) - 1) |-> ValueNode_text_range(es[i + 1].value)]))

with_next(r, next) == IF IsSome(next) THEN cover_offset(r, Unwrap(next)) ELSE r
with_entries(r, inner_range) ==
    IF IsSome(inner_range) THEN cover(r, Unwrap(inner_range)) ELSE r

\* TableNode::text_range
TableNode_text_range(t) ==
    with_next(with_entries(syntax_range(t.syntax), Entries_text_range(t.entries)),
              t.next_entry)

\* ArrayNode::text_range
ArrayNode_text_range(a) ==
    with_next(cover_all(syntax_range(a.syntax),
                        [i \in 1..Len(a.items) |-> ValueNode_text_range(a.items[i])]),
              a.next_header_start)

\* ValueNode::text_range; Empty has none (panic "empty value"), modelled by
\* the empty range at 0, as is an Invalid value without a node.
ValueNode_text_range(v) ==
    IF v.type = "Table" THEN TableNode_text_range(v)
    ELSE IF v.type = "Array" THEN ArrayNode_text_range(v)
    ELSE IF v.type = "Empty" THEN <<0, 0>>
    ELSE IF v.type = "Invalid"
    THEN (IF IsSome(v.syntax) THEN syntax_range(Unwrap(v.syntax)) ELSE <<0, 0>>)
    ELSE syntax_range(v.syntax)

\* --------------------------------------------------------------- lift pass

\* root_syntax.children(): the nodes among the top-level elements.
children(d) == SelectSeq(d, is_node)

\* The end of the text read so far (the end of the root's text range).
root_end == IF Len(doc) = 0 THEN 0 ELSE range_end(doc[Len(doc)])

\* The indices of a sequence from the last down to the first.
rev_indices(n) == [i \in 1..n |-> n + 1 - i]

\* IndexMap::get: the position of the key equal to `key`, 0 if there is none.
map_index(map, key) ==
    LET hit == {i \in 1..Len(map) : key_eq(map[i].k, key)}
    IN  IF hit = {} THEN 0 ELSE CHOOSE i \in hit : TRUE

\* IndexMap::insert: a new key is appended, an existing key keeps its place.
map_insert(map, key, entry) ==
    IF map_index(map, key) = 0 THEN Append(map, [k |-> key, e |-> entry])
    ELSE [map EXCEPT ![map_index(map, key)] = [k |-> map[map_index(map, key)].k,
                                                e |-> entry]]

\* The loop's variables left as they are (`continue`).
lift_same ==
    [entries |-> entries, prefixes |-> prefixes, prefix |-> prefix,
     tables |-> tables, errors |-> errors, panic |-> FALSE]

\* Mutant: the first entry with the segments of `key` instead of the last.
existing_table_first(key) ==
    LET found == {i \in 1..Len(entries) : eq_keys(entries[i].k, key)}
    IN  IF found = {} THEN 0 ELSE CHOOSE i \in found : \A j \in found : i <= j

\* entries.iter().rev().find(|(k, _)| k.eq_keys(&key)): the position of the
\* last entry with the segments of `key`, 0 if there is none.
existing_table(key) ==
    LET found == {i \in 1..Len(entries) : eq_keys(entries[i].k, key)}
    IN  IF found = {} THEN 0 ELSE CHOOSE i \in found : \A j \in found : j <= i

\* The entry a header is inserted as.
header_entry(table, key) ==
    [syntax |-> table.syntax, key |-> key, value |-> table, next_entry |-> None]

\* Mutant: the header is inserted as the next array item whatever it meets.
header_existing_insert(table, key, existing, existing_key) ==
    [key |-> with_index(key, existing_key.index + 1),
     entries |-> map_insert(entries, with_index(key, existing_key.index + 1),
                            header_entry(table, with_index(key, existing_key.index + 1))),
     errors |-> errors]

\* The header meets an entry with the same segments: [key, entries, errors].
header_existing(table, key, existing, existing_key) ==
    LET existing_table_array ==
            IF existing.value.type = "Table" THEN is_part_of_array(existing.value)
            ELSE FALSE
    IN  IF existing_table_array /\ ~is_part_of_array(table)
        THEN [key |-> key, entries |-> entries,
              errors |-> Append(errors, ExpectedTableArray(existing.key, key))]
        ELSE IF ~existing_table_array /\ is_part_of_array(table)
        THEN [key |-> key, entries |-> entries,
              errors |-> Append(errors, ExpectedTableArray(key, existing.key))]
        ELSE IF ~existing_table_array /\ ~is_part_of_array(table)
        THEN [key |-> key, entries |-> entries,
              errors |-> Append(errors, DuplicateKey(existing.key, key))]
        ELSE [key |-> with_index(key, existing_key.index + 1),
              entries |-> map_insert(entries, with_index(key, existing_key.index + 1),
                                     header_entry(table,
                                         with_index(key, existing_key.index + 1))),
              errors |-> errors]

\* [key, entries, errors] after the search for an existing table, `ex` being
\* the position found.
header_insert(table, key, ex) ==
    IF ex # 0 THEN header_existing(table, key, entries[ex].e, entries[ex].k)
    ELSE [key |-> key, entries |-> map_insert(entries, key, header_entry(table, key)),
          errors |-> errors]

\* The walk over the earlier entries for TopLevelTableDefined, then the
\* bookkeeping of prefixes, prefix and tables.
header_scan(ins) ==
    LET key == ins.key
        \* entries.iter().enumerate().rev().skip(1)
        scanned == Tail(rev_indices(Len(ins.entries)))
        clashing == SelectSeq(scanned, LAMBDA i :
                        /\ i <= Len(prefixes)
                        /\ IsSome(prefixes[i])
                        /\ contains(ins.entries[i].k, key)
                        /\ common_prefix_count(Unwrap(prefixes[i]), key)
                               < key_count(key))
        clash_errors == [j \in 1..Len(clashing) |->
                            TopLevelTableDefined(key, ins.entries[clashing[j]].e.key)]
        no_prefix == \E j \in 1..Len(scanned) : scanned[j] > Len(prefixes)
        out_of_range == key.index > Len(tables)
    IN  IF no_prefix \/ out_of_range
        THEN [lift_same EXCEPT !.entries = ins.entries, !.errors = ins.errors,
                               !.panic = TRUE]
        ELSE [entries |-> ins.entries,
              prefixes |-> Append(prefixes, None),
              prefix |-> Some(key),
              tables |-> IF Len(tables) = key.index THEN Append(tables, <<key>>)
                         ELSE [tables EXCEPT ![key.index + 1] = Append(@, key)],
              errors |-> ins.errors \o clash_errors,
              panic |-> FALSE]

\* The header's key has been looked for: `cast_key` is what was found.
header_keyed(child, table, cast_key) ==
    IF ~IsSome(cast_key)
    THEN [lift_same EXCEPT !.errors =
             Append(@, Spanned(<<range_start(child), range_end(child)>>,
                               "table has no key"))]
    ELSE header_scan(header_insert(table, Unwrap(cast_key),
                                   existing_table(Unwrap(cast_key))))

\* The header has been cast to `table`; `fc` is its syntax's first child.
header_table(child, table, fc) ==
    header_keyed(child, table, IF IsSome(fc) THEN KeyNode_cast(Unwrap(fc)) ELSE None)

\* `t` is what TableNode::cast made of the child.
header_cast(child, t) ==
    IF ~IsSome(t) THEN lift_same
    ELSE header_table(child, Unwrap(t), first_child(Unwrap(t).syntax))

\* The TABLE_HEADER | TABLE_ARRAY_HEADER arm of the loop of RootNode::cast,
\* for one child: the values of the loop's variables after the iteration.
header_step(child) == header_cast(child, TableNode_cast(child))

\* The entry's key with the current prefix in front.
insert_key(key) ==
    IF IsSome(prefix) THEN with_prefix(key, Unwrap(prefix)) ELSE key

\* tables.get(insert_key.index)
same_index_tables(key) ==
    IF key.index < Len(tables) THEN tables[key.index + 1] ELSE <<>>

\* The first of `ts` whose key, the prefix `p` stripped, starts the entry's;
\* none if that is the last table of `ts`.
first_containing(key, ts, p) ==
    LET holding == {i \in 1..Len(ts) :
                       contains(without_prefix(key, p), without_prefix(ts[i], p))}
    IN  IF holding = {} THEN None
        ELSE IF ~key_eq(ts[CHOOSE i \in holding : \A j \in holding : i <= j],
                        ts[Len(ts)])
        THEN Some(ts[CHOOSE i \in holding : \A j \in holding : i <= j])
        ELSE None

\* The table, registered before the current one, the entry would belong to.
table_containing_entry(key) ==
    IF ~IsSome(prefix) THEN None
    ELSE first_containing(key, same_index_tables(key), Unwrap(prefix))

\* The checks of the entry arm, `holder` and `at` being what the searches found.
entry_checked(entry, key, holder, at) ==
    IF IsSome(holder)
    THEN [lift_same EXCEPT !.errors =
             Append(@, TopLevelTableDefined(Unwrap(holder), entry.key))]
    ELSE IF at # 0
    THEN [lift_same EXCEPT !.errors =
             Append(@, DuplicateKey(entries[at].e.key, entry.key))]
    ELSE [lift_same EXCEPT !.prefixes = Append(prefixes, prefix),
                           !.entries = map_insert(entries, key, entry)]

\* The entry has been cast and given its full key.
entry_keyed(entry, key) ==
    entry_checked(entry, key, table_containing_entry(key), map_index(entries, key))

\* `cast` is what EntryNode::cast made of the child.
entry_cast(cast) ==
    IF ~IsSome(cast) THEN lift_same
    ELSE entry_keyed(Unwrap(cast), insert_key(Unwrap(cast).key))

\* The ENTRY arm of the loop of RootNode::cast, for one child.
entry_step(child) == entry_cast(EntryNode_cast(child))

\* --------------------------------------------------- after the lift loop

\* The fold that groups the flat entries by the index of their key.
RECURSIVE grouped_by_index(_, _, _)
grouped_by_index(map, i, all) ==
    IF i > Len(map) THEN all
    ELSE grouped_by_index(map, i + 1,
             IF Len(all) < map[i].k.index + 1 THEN Append(all, <<map[i]>>)
             ELSE [all EXCEPT ![map[i].k.index + 1] = Append(@, map[i])])

\* The additional checks: the loops stop after the first entry of the first
\* group (break 'outer).
additional_errors(map) ==
    LET grouped == grouped_by_index(map, 1, <<>>)
    IN  IF Len(grouped) = 0 THEN <<>>
        ELSE LET group == grouped[1]
                 k == group[1].k
                 e == group[1].e
                 is_table_array == IF e.value.type = "Table"
                                   THEN is_part_of_array(e.value) ELSE FALSE
                 hit == {j \in 1..Len(group) :
                            /\ group[j].e.value.type = "Table"
                            /\ is_part_of(group[j].k, k)
                            /\ is_part_of_array(group[j].e.value)}
             IN  IF ~is_table_array /\ hit # {}
                 THEN <<ExpectedTableArray(group[CHOOSE j \in hit : \A l \in hit : j <= l].k,
                                           k)>>
                 ELSE <<>>

\* Entries::from_map
\* Mutant: the entries in the reverse of the insertion order.
from_map_reversed(map) ==
    [i \in 1..Len(map) |-> [map[Len(map) + 1 - i].e EXCEPT !.key = map[Len(map) + 1 - i].k]]

from_map(map) == [i \in 1..Len(map) |-> [map[i].e EXCEPT !.key = map[i].k]]

\* Mutant: merge and normalize run whatever the lift pass reported.
merge_always(errs) == TRUE

\* The test errors.is_empty() that guards merge and normalize.
merge_wanted(errs) == Len(errs) = 0

\* What RootNode::cast returns: the entries and errors of the root, with the
\* errors as they were at the test, the merge_entry calls made, and whether
\* a panic site was reached.
finish_result(errs, merged, spanned) ==
    [entries |-> spanned.v, lift_errors |-> errs, errors |-> merged.acc.errors,
     calls |-> merged.acc.calls, panic |-> spanned.panic]

\* final_entries.set_table_spans(&syntax_node, Some(end + 1))
finish_spans(errs, merged, normalized) ==
    finish_result(errs, merged,
        IF merged.acc.panic THEN [v |-> normalized, panic |-> TRUE]
        ELSE Entries_set_table_spans(normalized, children(doc), Some(root_end + 1)))

\* final_entries.normalize(), under the same test as merge
finish_normalize(errs, merged) ==
    finish_spans(errs, merged,
        IF merge_wanted(errs) /\ ~merged.acc.panic
        THEN Entries_normalize(merged.entries)
        ELSE merged.entries)

\* if errors.is_empty() { final_entries.merge(&mut errors); ... }
finish_merge(errs, flat) ==
    finish_normalize(errs,
        IF merge_wanted(errs)
        THEN merge(flat, [errors |-> errs, calls |-> {}, panic |-> FALSE])
        ELSE [entries |-> flat,
              acc |-> [errors |-> errs, calls |-> {}, panic |-> FALSE]])

\* The code of RootNode::cast after the loop.
root_finish == finish_merge(errors \o additional_errors(entries), from_map(entries))

\* ------------------------------------------------------- the documents

A == <<"a">>
B == <<"b">>
AB == <<"a", "b">>

IntSrc(text) == [kind |-> "INTEGER", text |-> text]
ArrSrc(items) == [kind |-> "ARRAY", items |-> items]
InlineSrc(ents) == [kind |-> "INLINE_TABLE", entries |-> ents]
EntSrc(key, value) == [key |-> key, value |-> value]

HeaderKinds == {"TABLE_HEADER", "TABLE_ARRAY_HEADER"}

\* The keys of the headers explored; <<>> is a header without a key.
HeaderKeys == {<<A>>, <<B>>, <<AB>>, <<A, B>>, <<>>}

\* The top-level entries explored.
EntrySources ==
    {EntSrc(k, IntSrc(<<"1">>)) :
        k \in {<<A>>, <<B>>, <<A, A>>, <<A, B>>, <<B, A>>, <<A, B, A>>, <<A, B, B>>}}
    \cup {EntSrc(<<A>>, IntSrc(<<"2">>)),
          EntSrc(<<A>>, ArrSrc(<<IntSrc(<<"1">>)>>)),
          EntSrc(<<A>>, InlineSrc(<<EntSrc(<<A>>, IntSrc(<<"1">>))>>)),
          EntSrc(<<A>>, InlineSrc(<<EntSrc(<<A, A>>, IntSrc(<<"1">>)),
                              EntSrc(<<A, B>>, IntSrc(<<"2">>))>>))}

\* ------------------------------------------------------------ the machine

Init ==
    /\ doc = <<>>
    /\ entries = <<>>
    /\ prefixes = <<>>
    /\ prefix = None
    /\ tables = <<>>
    /\ errors = <<>>
    /\ final_entries = <<>>
    /\ root_errors = <<>>
    /\ merge_calls = {}
    /\ keys = <<>>
    /\ handler = <<>>
    /\ world = <<>>
    /\ tasks = <<>>
    /\ pc = "lift"

\* One iteration of the loop for `child`, and the one for the line break
\* after it (an element of no interest to the loop).
Lift(child, r) ==
    /\ doc' = doc \o <<child, Tok("NEWLINE", <<"\n">>, range_end(child))>>
    /\ entries' = r.entries
    /\ prefixes' = r.prefixes
    /\ prefix' = r.prefix
    /\ tables' = r.tables
    /\ errors' = r.errors
    /\ pc' = IF r.panic THEN "panic" ELSE "lift"
    /\ UNCHANGED <<final_entries, root_errors, merge_calls, keys, handler, world, tasks>>

LiftHeader ==
    /\ pc = "lift"
    /\ Len(children(doc)) < MaxChildren
    /\ \E kind \in HeaderKinds, segs \in HeaderKeys :
          LET child == SynHeader(kind, segs, root_end)
          IN  Lift(child, header_step(child))

LiftEntry ==
    /\ pc = "lift"
    /\ Len(children(doc)) < MaxChildren
    /\ \E src \in EntrySources :
          LET child == SynEntry(src, root_end)
          IN  Lift(child, entry_step(child))

\* The end of RootNode::cast, `r` being what the code after the loop computes.
Return(r) ==
    /\ final_entries' = r.entries
    /\ errors' = r.lift_errors
    /\ root_errors' = r.errors
    /\ merge_calls' = r.calls
    /\ pc' = IF r.panic THEN "panic" ELSE "done"
    /\ UNCHANGED <<doc, entries, prefixes, prefix, tables, keys, handler, world, tasks>>

Finish ==
    /\ pc = "lift"
    /\ Return(root_finish)

Next == LiftHeader \/ LiftEntry \/ Finish

Spec == Init /\ [][Next]_vars

\* Longer documents over fewer children: the headers [a], [b], [a.b], [[a]],
\* [[b]] and [[a.b]] and the entries a = 1, b = 1 and a.b = 1.
DeepChildren == 5
DeepHeaderKeys == {<<A>>, <<B>>, <<A, B>>}
DeepEntrySources == {EntSrc(k, IntSrc(<<"1">>)) : k \in {<<A>>, <<B>>, <<A, B>>}}

LiftHeaderDeep ==
    /\ pc = "lift"
    /\ Len(children(doc)) < DeepChildren
    /\ \E kind \in HeaderKinds, segs \in DeepHeaderKeys :
          Lift(SynHeader(kind, segs, root_end),
               header_step(SynHeader(kind, segs, root_end)))

LiftEntryDeep ==
    /\ pc = "lift"
    /\ Len(children(doc)) < DeepChildren
    /\ \E src \in DeepEntrySources :
          Lift(SynEntry(src, root_end), entry_step(SynEntry(src, root_end)))

NextDeep == LiftHeaderDeep \/ LiftEntryDeep \/ Finish

SpecDeep == Init /\ [][NextDeep]_vars

\* ------------------------------------------------- reading the final tree

RECURSIVE ValuesOf(_)
\* A value and every value below it (entries of tables, items of arrays).
ValuesOf(v) ==
    {v} \cup
    (IF v.type = "Table" THEN UNION {ValuesOf(v.entries[i].value) : i \in 1..Len(v.entries)}
     ELSE IF v.type = "Array" THEN UNION {ValuesOf(v.items[i]) : i \in 1..Len(v.items)}
     ELSE {})

\* Every value of the tree below a list of entries.
TreeValues(es) == UNION {ValuesOf(es[i].value) : i \in 1..Len(es)}

\* Every entry list of the tree: the list itself and the list of every Table.
EntryLists(es) == {es} \cup {v.entries : v \in {w \in TreeValues(es) : w.type = "Table"}}

\* Every entry of the tree.
TreeEntries(es) == UNION {Range(L) : L \in EntryLists(es)}

\* The returned root: cast has returned, and whether the lift pass (with the
\* additional checks) had recorded errors when merge was decided.
Returned == pc = "done"
LiftClean == Len(errors) = 0

\* The text of the document read.
DocText == Concat([i \in 1..Len(doc) |-> to_string(doc[i])])

\* -------------------------------------------------------------------- C1

\* C1: after RootNode::cast on a document for which the lift pass records no
\* error, every Entry of the final tree (root entries, entries of header
\* tables, pseudo-tables, inline tables and array-of-tables items) has a key
\* with exactly one segment.
C1_SingleSegmentKeys ==
    (Returned /\ LiftClean) =>
        \A L \in EntryLists(final_entries) : \A i \in 1..Len(L) :
            key_count(L[i].key) = 1 /\ Len(keys_str(L[i].key)) = 1

\* A returned, error-free document in which a three-segment key was written
\* under a header and the tree holds a pseudo-table and an array-of-tables item.
C1_Witness ==
    /\ Returned /\ LiftClean
    /\ \E i \in 1..Len(entries) :
          key_count(entries[i].k) = 3 /\ key_count(entries[i].e.key) = 2
    /\ \E v \in TreeValues(final_entries) : v.type = "Table" /\ v.pseudo
    /\ \E v \in TreeValues(final_entries) : v.type = "Array" /\ v.tables

\* -------------------------------------------------------------------- C2

\* C2: for every document on which lifting reports no errors, any two
\* Entries in the same entry list of the final tree (the root's list or the
\* list of any one Table, inline tables included) have distinct
\* single-segment keys.
C2_DistinctKeys ==
    (Returned /\ LiftClean) =>
        \A L \in EntryLists(final_entries) : \A i, j \in 1..Len(L) :
            i # j => keys_str(L[i].key) # keys_str(L[j].key)

\* -------------------------------------------------------------------- C3

\* C3: in every Root produced by RootNode::cast, every Array with
\* tables = true contains only Table items, each with its array flag false.
C3_TableArrayItems ==
    Returned =>
        \A v \in TreeValues(final_entries) :
            (v.type = "Array" /\ v.tables) =>
                \A i \in 1..Len(v.items) :
                    v.items[i].type = "Table" /\ ~v.items[i].array

\* A returned root with an array of tables of two items.
C3_Witness ==
    /\ Returned
    /\ \E v \in TreeValues(final_entries) :
          v.type = "Array" /\ v.tables /\ Len(v.items) = 2

\* -------------------------------------------------------------------- C4

\* The header nodes [[k]] of the document.
ArrayHeaders == {n \in Range(children(doc)) :
                    n.kind = "TABLE_ARRAY_HEADER" /\ IsSome(TableNode_cast(n))}

\* C4: for a document lifted and merged without errors, every array-of-tables
\* header [[k]] is a Table item of an Array with tables = true, and no Table
\* with array = true remains anywhere in the final tree.
C4_NoArrayFlaggedTable ==
    (Returned /\ Len(root_errors) = 0) =>
        /\ \A v \in TreeValues(final_entries) : v.type = "Table" => ~v.array
        /\ \A h \in ArrayHeaders :
              \E v \in TreeValues(final_entries) :
                  /\ v.type = "Array" /\ v.tables
                  /\ \E i \in 1..Len(v.items) : v.items[i].syntax = h

\* -------------------------------------------------------------------- C5

\* The last top-level node read.
LastNode == children(doc)[Len(children(doc))]

\* The key of a header node.
HeaderKey(n) == Unwrap(KeyNode_cast(Unwrap(first_child(n))))

\* The number of segments of the header under which the i-th flat entry was
\* written: its full key is that header's key followed by its own key.
WrittenUnder(i) == key_count(entries[i].k) - key_count(entries[i].e.key)

\* C5: when a table header [k] follows an earlier dotted entry whose full key
\* contains k and that was not written under a header covering all of k's
\* segments, lifting reports TopLevelTableDefined referencing the header k and
\* that entry; this includes a dotted entry written at top level before any
\* header (a.b = 1 followed by [a]).
C5_TableOverDottedKey ==
    (pc = "lift" /\ Len(doc) > 0 /\ LastNode.kind = "TABLE_HEADER"
        /\ IsSome(TableNode_cast(LastNode))) =>
        \A i \in 1..Len(entries) :
            (/\ entries[i].e.syntax.kind = "ENTRY"
             /\ key_count(entries[i].e.key) > 1
             /\ is_part_of(HeaderKey(LastNode), entries[i].k)
             /\ key_count(entries[i].k) > key_count(HeaderKey(LastNode))
             /\ WrittenUnder(i) < key_count(HeaderKey(LastNode)))
            => \E j \in 1..Len(errors) :
                  /\ errors[j].type = "TopLevelTableDefined"
                  /\ errors[j].table.syntax = Unwrap(first_child(LastNode))
                  /\ errors[j].key = entries[i].e.key

\* -------------------------------------------------------------------- C6

\* C6: if the lift pass records at least one error, merge and normalize are
\* not run: the Root's entries are exactly the flat lifted entries in
\* insertion order with their full keys, the tree contains no Table with
\* pseudo = true, and span assignment is still applied (every entry made from
\* a header, and its table, carries the offset at which its span ends).
C6_LiftErrorsSkipMerge ==
    (Returned /\ ~LiftClean) =>
        /\ root_errors = errors
        /\ merge_calls = {}
        /\ Len(final_entries) = Len(entries)
        /\ \A i \in 1..Len(entries) :
              LET f == final_entries[i]
                  o == entries[i]
              IN  /\ f.key = o.k
                  /\ f.syntax = o.e.syntax
                  /\ IF f.syntax.kind \in HeaderKinds
                     THEN /\ IsSome(f.next_entry)
                          /\ Unwrap(f.next_entry) >= range_end(f.syntax)
                          /\ Unwrap(f.next_entry) <= root_end + 1
                          /\ f.value = [o.e.value EXCEPT !.next_entry = f.next_entry]
                     ELSE f.next_entry = None /\ f.value = o.e.value
        /\ \A v \in TreeValues(final_entries) : v.type = "Table" => ~v.pseudo

\* A returned root with lift errors that keeps a header and a dotted entry
\* written under it, which merge would have nested.
C6_Witness ==
    /\ Returned /\ ~LiftClean
    /\ \E i \in 1..Len(final_entries) : final_entries[i].syntax.kind \in HeaderKinds
    /\ \E i \in 1..Len(final_entries) :
          /\ final_entries[i].syntax.kind = "ENTRY"
          /\ key_count(final_entries[i].key) = 3
          /\ WrittenUnder(i) = 1

\* -------------------------------------------------------------------- C7

\* A step of the lift loop that reads an ENTRY node, and the entry read.
NewNode == doc'[Len(doc') - 1]
EntryRead == pc = "lift" /\ Len(doc') > Len(doc) /\ NewNode.kind = "ENTRY"
NewEntry == Unwrap(EntryNode_cast(NewNode))

\* The i-th flat entry has the full key of the entry read: the segments of
\* the current prefix followed by the entry's own, and the prefix's index.
SameFullKey(i) ==
    /\ keys_str(entries[i].k) =
          (IF IsSome(prefix) THEN keys_str(Unwrap(prefix)) ELSE <<>>)
          \o keys_str(NewEntry.key)
    /\ entries[i].k.index = (IF IsSome(prefix) THEN Unwrap(prefix).index ELSE 0)

\* a = 1 followed by a = 2
TwoValuesOfA == <<"a", "=", "1", "\n", "a", "=", "2", "\n">>

\* The root of a = 1, a = 2 has the single entry a = 1.
OnlyFirstA ==
    /\ Len(final_entries') = 1
    /\ keys_str(final_entries'[1].key) = <<A>>
    /\ final_entries'[1].value.type = "Integer"
    /\ final_entries'[1].value.syntax.text = <<"1">>

\* C7 as claimed: an entry whose full key equals the full key of an already
\* inserted entry is reported as DuplicateKey{first: existing key, second:
\* new key} and is not inserted; the existing entry is left unchanged.
C7_DuplicateKeyAlways ==
    [][/\ EntryRead =>
            \A i \in 1..Len(entries) :
                SameFullKey(i) =>
                    /\ entries' = entries
                    /\ prefixes' = prefixes
                    /\ errors' = Append(errors,
                                        DuplicateKey(entries[i].e.key, NewEntry.key))
       /\ (pc' = "done" /\ DocText = TwoValuesOfA) => OnlyFirstA]_vars

\* C7 as amended: such an entry is never inserted and the existing entry is
\* left unchanged; it is reported as DuplicateKey{first: existing key,
\* second: new key} unless the entry arm's earlier check has already rejected
\* it with TopLevelTableDefined for a header registered before the current one.
C7_DuplicateKeyUnlessTableDefined ==
    [][/\ EntryRead =>
            \A i \in 1..Len(entries) :
                SameFullKey(i) =>
                    /\ entries' = entries
                    /\ prefixes' = prefixes
                    /\ \/ errors' = Append(errors,
                                           DuplicateKey(entries[i].e.key, NewEntry.key))
                       \/ /\ IsSome(prefix)
                          /\ \E t \in UNION {Range(tables[n]) : n \in 1..Len(tables)} :
                                /\ ~key_eq(t, Unwrap(prefix))
                                /\ errors' = Append(errors,
                                                    TopLevelTableDefined(t, NewEntry.key))
       /\ (pc' = "done" /\ DocText = TwoValuesOfA) => OnlyFirstA]_vars

\* A duplicate of an entry written under a header has just been rejected.
C7_Witness ==
    /\ pc = "lift" /\ Len(doc) > 0 /\ LastNode.kind = "ENTRY"
    /\ IsSome(prefix)
    /\ Len(errors) = 1 /\ errors[1].type = "DuplicateKey"
    /\ Len(entries) = 2 /\ entries[2].e.syntax.kind = "ENTRY"

\* --------------------------------------------------------------- C8, C9

\* Plain sequences of segment strings.
IsPrefixStr(a, b) == Len(a) <= Len(b) /\ SubSeq(b, 1, Len(a)) = a
CommonLen(a, b) ==
    CHOOSE n \in 0..Min(Len(a), Len(b)) :
        /\ SubSeq(a, 1, n) = SubSeq(b, 1, n)
        /\ n = Min(Len(a), Len(b)) \/ a[n + 1] # b[n + 1]

\* A value no entry can be merged into, and the error that says so.
Unextendable(v) ==
    \/ v.type = "Table" /\ v.syntax.kind = "INLINE_TABLE"
    \/ v.type = "Array" /\ ~v.tables
    \/ v.type \notin {"Table", "Array", "Empty"}
RefusalType(v) ==
    IF v.type = "Table" THEN "InlineTable"
    ELSE IF v.type = "Array" THEN "ExpectedTableArray"
    ELSE "ExpectedTable"

\* The syntax nodes the entries of the final tree were made from.
TreeSyntax == {e.syntax : e \in TreeEntries(final_entries)}

\* a = { a = 1 } followed by a.b = 1
InlineThenDotted ==
    <<"a", "=", "{", "a", "=", "1", "}", "\n", "a", ".", "b", "=", "1", "\n">>

\* C8: during merge, when a new entry's key extends the key of an existing
\* entry whose value cannot be extended, the matching error is recorded
\* (inline Table: InlineTable; Array that is not an array of tables:
\* ExpectedTableArray; any other scalar: ExpectedTable; each with target =
\* existing key and key = new key), the new entry is dropped, and the existing
\* entry keeps its key and value unchanged; after a = { a = 1 } and a.b = 1,
\* a is still the inline table with its single entry.
C8_RefusedExtension ==
    Returned =>
        /\ \A c \in merge_calls :
              (/\ IsPrefixStr(keys_str(c.old.key), keys_str(c.new.key))
               /\ Unextendable(c.old.value)) =>
                  /\ c.tag = "err"
                  /\ Unwrap(c.err) = [type |-> RefusalType(c.old.value),
                                      target |-> c.old.key, key |-> c.new.key]
                  /\ \E j \in 1..Len(root_errors) : root_errors[j] = Unwrap(c.err)
                  /\ c.old_after = c.old
                  /\ c.new.syntax \notin TreeSyntax
                  /\ c.old.syntax \in TreeSyntax
        /\ DocText = InlineThenDotted =>
              /\ Len(root_errors) = 1
              /\ root_errors[1].type = "InlineTable"
              /\ keys_str(root_errors[1].target) = <<A>>
              /\ keys_str(root_errors[1].key) = <<A, B>>
              /\ Len(final_entries) = 1
              /\ keys_str(final_entries[1].key) = <<A>>
              /\ final_entries[1].value.type = "Table"
              /\ final_entries[1].value.syntax.kind = "INLINE_TABLE"
              /\ Len(final_entries[1].value.entries) = 1
              /\ keys_str(final_entries[1].value.entries[1].key) = <<A>>
              /\ final_entries[1].value.entries[1].value.type = "Integer"

\* A merge in which an entry under a header tried to extend an inline table.
C8_Witness ==
    /\ Returned
    /\ \E c \in merge_calls :
          /\ c.tag = "err" /\ Unwrap(c.err).type = "InlineTable"
          /\ key_count(c.new.key) = 2
    /\ \E i \in 1..Len(final_entries) : final_entries[i].syntax.kind = "TABLE_HEADER"

\* a.b.a = 1 followed by a.b.b = 1
TwoDottedSiblings ==
    <<"a", ".", "b", ".", "a", "=", "1", "\n", "a", ".", "b", ".", "b", "=", "1", "\n">>

\* The entry `stripped` is `whole` with the first n segments of its key removed.
Stripped(stripped, whole, n) ==
    /\ keys_str(stripped.key) = SubSeq(keys_str(whole.key), n + 1, Len(keys_str(whole.key)))
    /\ stripped.value = whole.value
    /\ stripped.syntax = whole.syntax

\* C9: when two entries at the same level share a non-empty common key prefix
\* and neither key is a prefix of the other, merge replaces them by one entry
\* keyed by their longest common prefix whose value is a pseudo-Table holding
\* both entries with that prefix stripped, and no error is recorded; after
\* normalize, a.b.a = 1 and a.b.b = 1 give one root entry a -> pseudo-Table ->
\* one entry b -> pseudo-Table -> the entries a = 1 and b = 1.
C9_PseudoTableFromCommonPrefix ==
    Returned =>
        /\ \A c \in merge_calls :
              LET ok == keys_str(c.old.key)
                  nk == keys_str(c.new.key)
                  n == CommonLen(ok, nk)
              IN  (n > 0 /\ n < Len(ok) /\ n < Len(nk)) =>
                      /\ c.tag = "true" /\ c.err = None /\ c.pushed = 0
                      /\ keys_str(c.old_after.key) = SubSeq(ok, 1, n)
                      /\ c.old_after.value.type = "Table"
                      /\ c.old_after.value.pseudo
                      /\ ~c.old_after.value.array
                      /\ Len(c.old_after.value.entries) = 2
                      /\ Stripped(c.old_after.value.entries[1], c.old, n)
                      /\ Stripped(c.old_after.value.entries[2], c.new, n)
        /\ DocText = TwoDottedSiblings =>
              /\ Len(root_errors) = 0
              /\ Len(final_entries) = 1
              /\ LET ea == final_entries[1]
                 IN  /\ keys_str(ea.key) = <<A>>
                     /\ ea.value.type = "Table" /\ ea.value.pseudo
                     /\ Len(ea.value.entries) = 1
                     /\ LET eb == ea.value.entries[1]
                        IN  /\ keys_str(eb.key) = <<B>>
                            /\ eb.value.type = "Table" /\ eb.value.pseudo
                            /\ Len(eb.value.entries) = 2
                            /\ keys_str(eb.value.entries[1].key) = <<A>>
                            /\ keys_str(eb.value.entries[2].key) = <<B>>
                            /\ eb.value.entries[1].value.type = "Integer"
                            /\ eb.value.entries[2].value.type = "Integer"

\* The merge of a.b.a = 1 and a.b.b = 1 has been made.
C9_Witness ==
    /\ Returned
    /\ DocText = TwoDottedSiblings
    /\ \E c \in merge_calls : CommonLen(keys_str(c.old.key), keys_str(c.new.key)) = 2

\* ------------------------------------------------------------------- C10

\* The positions, among the top-level nodes, of the headers [[x]].
Occurrences(x) ==
    {j \in 1..Len(children(doc)) :
        /\ children(doc)[j].kind = "TABLE_ARRAY_HEADER"
        /\ IsSome(TableNode_cast(children(doc)[j]))
        /\ keys_str(HeaderKey(children(doc)[j])) = <<x>>}

\* The entries written after the header at position j, up to the next header.
WrittenAfter(j) ==
    {children(doc)[l] : l \in {l \in (j + 1)..Len(children(doc)) :
        \A m \in (j + 1)..l : children(doc)[m].kind = "ENTRY"}}

\* C10: for an error-free document containing n occurrences of the header
\* [[x]], the final tree has exactly one entry x whose value is an Array with
\* tables = true and exactly n Table items, and the entries written after the
\* i-th occurrence (up to the next header) are the entries of item i, in
\* source order.
C10_ArrayOfTablesItems ==
    (Returned /\ LiftClean /\ Len(root_errors) = 0) =>
        \A x \in {A, B} :
            Occurrences(x) # {} =>
                /\ Cardinality({i \in 1..Len(final_entries) :
                                   keys_str(final_entries[i].key) = <<x>>}) = 1
                /\ \A i \in 1..Len(final_entries) :
                      keys_str(final_entries[i].key) = <<x>> =>
                          LET arr == final_entries[i].value
                          IN  /\ arr.type = "Array"
                              /\ arr.tables
                              /\ Len(arr.items) = Cardinality(Occurrences(x))
                              /\ \A j \in Occurrences(x) :
                                    LET m == Cardinality({l \in Occurrences(x) : l <= j})
                                        item == arr.items[m]
                                    IN  /\ item.type = "Table"
                                        /\ item.syntax = children(doc)[j]
                                        /\ \A s \in WrittenAfter(j) :
                                              \E e \in TreeEntries(item.entries) :
                                                  e.syntax = s
                                        /\ \A p, q \in 1..Len(item.entries) :
                                              (/\ p < q
                                               /\ item.entries[p].syntax \in WrittenAfter(j)
                                               /\ item.entries[q].syntax \in WrittenAfter(j))
                                              => item.entries[p].syntax.start
                                                     < item.entries[q].syntax.start

\* ------------------------------------------------------------------- C11

\* The segments of a header node's key; none for a header without a key.
HeaderSegs(n) ==
    IF IsSome(first_child(n)) THEN keys_str(HeaderKey(n)) ELSE <<>>

\* The headers written after the header `h` that are not sub-headers of it:
\* their key does not start with the segments of the key of `h`.
LaterOthers(h, kinds) ==
    {n \in Range(children(doc)) :
        /\ n.kind \in kinds
        /\ n.start > h.start
        /\ ~IsPrefixStr(HeaderSegs(h), HeaderSegs(n))}

\* The offset at which the span of the header `h` ends.
SpanEnd(h, kinds) ==
    IF LaterOthers(h, kinds) = {} THEN root_end + 1
    ELSE (CHOOSE n \in LaterOthers(h, kinds) :
             \A m \in LaterOthers(h, kinds) : n.start <= m.start).start

\* [a], a = 1, [b]
TableEntryTable ==
    <<"[", "a", "]", "\n", "a", "=", "1", "\n", "[", "b", "]", "\n">>

\* C11: for an Entry created from a [table] header, the span pass sets
\* next_entry to the start offset of the first later header (table or
\* array-of-tables) that is not a sub-header of it, or to end-of-file + 1 when
\* there is none, and the Entry's text range ends at that offset; for [a],
\* a = 1, [b] the range of entry a ends at the offset of the '[' of [b].
C11_TableHeaderSpan ==
    Returned =>
        /\ \A e \in TreeEntries(final_entries) :
              e.syntax.kind = "TABLE_HEADER" =>
                  /\ e.next_entry = Some(SpanEnd(e.syntax, HeaderKinds))
                  /\ EntryNode_text_range(e)[2] = SpanEnd(e.syntax, HeaderKinds)
        /\ DocText = TableEntryTable =>
              /\ keys_str(final_entries[1].key) = <<A>>
              /\ EntryNode_text_range(final_entries[1]) = <<0, 8>>

\* ------------------------------------------------------------------- C12

\* The root entries that are the table of a one-segment [table] header.
TopLevelTables ==
    {e \in Range(final_entries) :
        /\ e.value.type = "Table"
        /\ e.syntax.kind = "TABLE_HEADER"
        /\ e.value.syntax = e.syntax
        /\ Len(HeaderSegs(e.syntax)) = 1}

Disjoint(r, other) == r[2] <= other[1] \/ other[2] <= r[1]

\* C12: for every well-formed document, the text ranges of any two sibling
\* top-level tables are disjoint, and each table's range is exactly [its
\* header start, start of the next header that is not its sub-header); this
\* holds also for headers whose names are string prefixes of each other, such
\* as [a] and [ab], and for a sub-header [a.b] written after an unrelated [b].
C12_SiblingRangesDisjoint ==
    (Returned /\ LiftClean /\ Len(root_errors) = 0) =>
        /\ \A e \in TopLevelTables :
              TableNode_text_range(e.value)
                  = <<e.syntax.start, SpanEnd(e.syntax, HeaderKinds)>>
        /\ \A e, f \in TopLevelTables :
              e # f => Disjoint(TableNode_text_range(e.value),
                                TableNode_text_range(f.value))

\* ------------------------------------------------------------------- C13

RECURSIVE ValuePairs(_, _)
RECURSIVE EntryPairs(_, _)

\* The (full dotted path, scalar value) pairs below the entries `es` that
\* are reached by `path`, as a sequence; a value is given by its source text.
EntryPairs(es, path) ==
    Concat([i \in 1..Len(es) |-> ValuePairs(es[i].value, path \o keys_str(es[i].key))])

ValuePairs(v, path) ==
    IF v.type = "Table" THEN EntryPairs(v.entries, path)
    ELSE IF v.type = "Array" /\ v.tables
    THEN Concat([i \in 1..Len(v.items) |-> ValuePairs(v.items[i], path)])
    ELSE IF v.type = "Array" THEN <<<<path, to_string(v.syntax)>>>>
    ELSE IF v.type \in {"Empty", "Invalid"} THEN <<>>
    ELSE <<<<path, to_string(v.syntax)>>>>

\* The pairs read directly from the source: each entry's key with the key of
\* the header it is written under in front.
RECURSIVE SourcePairs(_, _, _)
SourcePairs(nodes, i, under) ==
    IF i > Len(nodes) THEN <<>>
    ELSE IF nodes[i].kind = "ENTRY"
    THEN ValuePairs(Unwrap(EntryNode_cast(nodes[i])).value,
                    under \o keys_str(Unwrap(EntryNode_cast(nodes[i])).key))
         \o SourcePairs(nodes, i + 1, under)
    ELSE SourcePairs(nodes, i + 1,
                     IF HeaderSegs(nodes[i]) = <<>> THEN under ELSE HeaderSegs(nodes[i]))

\* A sequence as a multiset: how often each element occurs.
CountIn(seq, x) == Cardinality({i \in 1..Len(seq) : seq[i] = x})
SameMultiset(s, t) ==
    \A x \in Range(s) \cup Range(t) : CountIn(s, x) = CountIn(t, x)

\* C13: for every document on which lifting reports no errors, the multiset
\* of (full dotted path, scalar value) pairs read off the final tree by
\* joining the nested single-segment keys equals the multiset obtained from
\* the source entries by prepending the current header key to each entry key.
C13_SamePathValueMultiset ==
    (Returned /\ LiftClean /\ Len(root_errors) = 0) =>
        SameMultiset(EntryPairs(final_entries, <<>>),
                     SourcePairs(children(doc), 1, <<>>))

\* ------------------------------------------------------------------- C14

\* C14: lifting never throws or aborts: whatever sequence of headers and
\* entries the root contains, RootNode::cast returns a Root with all semantic
\* errors accumulated in its error list, and none of the panic sites in lift,
\* merge, normalize or span assignment is reached.
C14_NeverPanics ==
    /\ pc \in {"lift", "done"}
    /\ Returned => SubSeq(root_errors, 1, Len(errors)) = errors

\* A returned root for which merge went through the last item of an array of
\* tables and the span pass through the items of one.
C14_Witness ==
    /\ Returned
    /\ \E c \in merge_calls :
          /\ c.old.value.type = "Array" /\ c.old.value.tables
          /\ ~eq_keys(c.old.key, c.new.key)
          /\ c.tag = "true"
    /\ \E v \in TreeValues(final_entries) :
          v.type = "Array" /\ v.tables /\ IsSome(v.items[1].next_entry)


\* ---------------------------------------------------------------------
\* The KeyNode methods on their own: three keys are cast from KEY
\* nodes at different offsets (so no two of them share a token), and the
\* crate's methods are applied to them.

QA == <<"'", "a", "'">>

\* The dotted keys cast: a, 'a', b, a.b, a.a, 'a'.b
KeySegs == {<<A>>, <<QA>>, <<B>>, <<A, B>>, <<A, A>>, <<QA, B>>}

KeyOffsets == <<0, 10, 20>>

\* The number of method calls applied to the three keys.
MaxKeyOps == 2

\* The longest key built by with_prefix.
MaxKeySegs == 4

\* The counts passed to outer and inner.
KeyCounts == 0..3

KeyIndexes == {0, 1}

KeyInit ==
    /\ doc = <<>>
    /\ entries = <<>>
    /\ prefixes = <<>>
    /\ prefix = None
    /\ tables = <<>>
    /\ errors = <<>>
    /\ final_entries = <<>>
    /\ root_errors = <<>>
    /\ merge_calls = {}
    /\ handler = <<>>
    /\ world = <<>>
    /\ tasks = <<>>
    /\ pc = "keys"
    /\ \E s1 \in KeySegs, s2 \in KeySegs, s3 \in KeySegs :
          keys = [k |-> <<KeyNode_cast(SynKey(s1, KeyOffsets[1]))[1],
                          KeyNode_cast(SynKey(s2, KeyOffsets[2]))[1],
                          KeyNode_cast(SynKey(s3, KeyOffsets[3]))[1]>>,
                  ops |-> 0]

\* keys[i] = f(keys[i])
KeyApply(i, result) ==
    /\ pc = "keys"
    /\ keys.ops < MaxKeyOps
    /\ keys' = [k |-> [keys.k EXCEPT ![i] = result], ops |-> keys.ops + 1]
    /\ UNCHANGED <<doc, entries, prefixes, prefix, tables, errors, final_entries,
                   root_errors, merge_calls, handler, world, tasks, pc>>

KeyOuter == \E i \in 1..3, n \in KeyCounts : KeyApply(i, outer(keys.k[i], n))

KeyInner == \E i \in 1..3, n \in KeyCounts : KeyApply(i, inner(keys.k[i], n))

KeyWithIndex == \E i \in 1..3, index \in KeyIndexes : KeyApply(i, with_index(keys.k[i], index))

KeyWithPrefix ==
    \E i \in 1..3, j \in 1..3 :
        /\ key_count(keys.k[i]) + key_count(keys.k[j]) <= MaxKeySegs
        /\ KeyApply(i, with_prefix(keys.k[i], keys.k[j]))

KeyWithoutPrefix ==
    \E i \in 1..3, j \in 1..3 : KeyApply(i, without_prefix(keys.k[i], keys.k[j]))

KeyPrefix == \E i \in 1..3 : KeyApply(i, key_prefix(keys.k[i]))

KeyLast == \E i \in 1..3 : KeyApply(i, key_last(keys.k[i]))

KeyNext ==
    \/ KeyOuter
    \/ KeyInner
    \/ KeyWithIndex
    \/ KeyWithPrefix
    \/ KeyWithoutPrefix
    \/ KeyPrefix
    \/ KeyLast

KeySpec == KeyInit /\ [][KeyNext]_vars


\* C15: is_part_of is reflexive, transitive, and antisymmetric with
\* respect to eq_keys, for every three keys the methods produce: masked
\* views and keys of different index included.
C15_IsPartOfPartialOrder ==
    pc = "keys" =>
        \A x \in 1..3, y \in 1..3, z \in 1..3 :
            LET a == keys.k[x]
                b == keys.k[y]
                c == keys.k[z]
            IN  /\ is_part_of(a, a)
                /\ (is_part_of(a, b) /\ is_part_of(b, c)) => is_part_of(a, c)
                /\ (is_part_of(a, b) /\ is_part_of(b, a)) => eq_keys(a, b)

\* A chain a <= b <= c where a is a shorter masked view, and b and c are
\* part of each other while their index values differ.
C15_Witness ==
    /\ pc = "keys"
    /\ is_part_of(keys.k[1], keys.k[2])
    /\ is_part_of(keys.k[2], keys.k[3])
    /\ is_part_of(keys.k[3], keys.k[2])
    /\ key_count(keys.k[1]) < key_count(keys.k[2])
    /\ keys.k[1].mask_right > 0
    /\ keys.k[2].index # keys.k[3].index


\* C16: whenever k.with_prefix(p) has been computed, removing p again with
\* without_prefix gives exactly the segment strings k had, also when k's
\* own leading segments repeat p's (k = a.b, p = a).
C16_WithThenWithoutPrefix ==
    [][\A i \in 1..3, j \in 1..3 :
          (/\ pc = "keys"
           /\ key_count(keys.k[i]) + key_count(keys.k[j]) <= MaxKeySegs
           /\ keys'.k[i] = with_prefix(keys.k[i], keys.k[j]))
          => keys_str(without_prefix(keys'.k[i], keys.k[j])) = keys_str(keys.k[i])]_vars

\* The key a.a.b built by a.b.with_prefix(a): its first token is p's.
C16_Witness ==
    /\ pc = "keys"
    /\ keys_str(keys.k[1]) = <<A, A, B>>
    /\ keys_str(keys.k[2]) = <<A>>
    /\ keys.k[1].idents[1] = keys.k[2].idents[1]
    /\ keys.k[1].idents[2] = keys.k[1].syntax.children[1]


\* The segments read when outer(n).inner(0) is followed by inner(n).
OuterThenInner(k, n) == keys_str(inner(outer(k, n), 0)) \o keys_str(inner(k, n))

\* C17 as stated: for every key and every count n, the segments of
\* outer(n).inner(0) followed by those of inner(n) are the key's segments.
C17_OuterInnerEveryCount ==
    pc = "keys" =>
        \A i \in 1..3, n \in KeyCounts : OuterThenInner(keys.k[i], n) = keys_str(keys.k[i])

\* C17 amended: the same for the counts that split the key in two
\* non-empty parts, 1 <= n < key_count; for n = 0 and for n >= key_count
\* the clamp keeps one segment (outer(0)) or all of them (outer(n), inner(0))
\* and the two parts overlap.
C17_OuterInnerSplit ==
    pc = "keys" =>
        \A i \in 1..3, n \in KeyCounts :
            LET k == keys.k[i]
            IN  /\ (1 <= n /\ n < key_count(k)) => OuterThenInner(k, n) = keys_str(k)
                /\ n = 0 => OuterThenInner(k, n) = <<keys_str(k)[1]>> \o keys_str(k)
                /\ n >= key_count(k) =>
                      OuterThenInner(k, n) = keys_str(k) \o <<keys_str(k)[key_count(k)]>>

\* A masked view of three segments of a rebuilt key of four, split at 1 and 2.
C17_Witness ==
    /\ pc = "keys"
    /\ key_count(keys.k[1]) = 3
    /\ keys.k[1].mask_left + keys.k[1].mask_right > 0
    /\ OuterThenInner(keys.k[1], 2) = keys_str(keys.k[1])


\* C18: == holds exactly when the visible segment strings and the index
\* are equal, eq_keys exactly when the visible segment strings are equal,
\* and equal keys feed the same values to the hasher, whatever tokens and
\* masks the two keys are made of.
C18_EqualityAndHash ==
    pc = "keys" =>
        \A x \in 1..3, y \in 1..3 :
            LET a == keys.k[x]
                b == keys.k[y]
            IN  /\ key_eq(a, b) <=> (keys_str(a) = keys_str(b) /\ a.index = b.index)
                /\ eq_keys(a, b) <=> keys_str(a) = keys_str(b)
                /\ key_eq(a, b) => key_hash(a) = key_hash(b)

\* 'a'.b as cast equals a.b rebuilt by with_prefix from a masked view of
\* another key: no token in common, one of them quoted.
C18_Witness ==
    /\ pc = "keys"
    /\ key_eq(keys.k[2], keys.k[3])
    /\ keys.k[2].idents[1].text = QA
    /\ keys.k[1].mask_right > 0
    /\ Len(keys.k[3].idents) = 2
    /\ keys.k[3].idents[1] = keys.k[1].idents[1]
    /\ \A i \in 1..2 : keys.k[2].idents[i] # keys.k[3].idents[i]


\* The full keys written in the source, in source order: each header's key,
\* and each entry's key with the key of the header it is written under in
\* front.
RECURSIVE SourceKeys(_, _, _)
SourceKeys(nodes, i, under) ==
    IF i > Len(nodes) THEN <<>>
    ELSE IF nodes[i].kind = "ENTRY"
    THEN <<under \o keys_str(Unwrap(EntryNode_cast(nodes[i])).key)>>
         \o SourceKeys(nodes, i + 1, under)
    ELSE IF HeaderSegs(nodes[i]) = <<>> THEN SourceKeys(nodes, i + 1, under)
    ELSE <<HeaderSegs(nodes[i])>> \o SourceKeys(nodes, i + 1, HeaderSegs(nodes[i]))

\* The full keys written by the top-level nodes from..to.
SourceKeysIn(from, to) == SourceKeys(SubSeq(children(doc), from, to), 1, <<>>)

\* The place among the source keys from..to of the first one that starts
\* with `path`; 0 when none does.
Rank(path, from, to) ==
    LET hits == {n \in 1..Len(SourceKeysIn(from, to)) :
                    IsPrefixStr(path, SourceKeysIn(from, to)[n])}
    IN  IF hits = {} THEN 0 ELSE CHOOSE n \in hits : \A m \in hits : n <= m

\* The top-level node an item of an array of tables was cast from; 0 when
\* it is none of them.
ItemFrom(item) ==
    LET at == {n \in 1..Len(children(doc)) : children(doc)[n] = item.syntax}
    IN  IF at = {} THEN 0 ELSE CHOOSE n \in at : TRUE

\* The entries of the table at `path`, written by the nodes from..to, are in
\* the order in which their keys first occur there; the same for the tables
\* below it that headers and dotted keys write, and for the items of arrays
\* of tables, each written from its header up to the next item's header.
RECURSIVE InSourceOrder(_, _, _, _)
InSourceOrder(es, path, from, to) ==
    /\ \A i \in 1..Len(es), j \in 1..Len(es) :
          (/\ i < j
           /\ Rank(path \o keys_str(es[i].key), from, to) > 0
           /\ Rank(path \o keys_str(es[j].key), from, to) > 0)
          => Rank(path \o keys_str(es[i].key), from, to)
                 < Rank(path \o keys_str(es[j].key), from, to)
    /\ \A i \in 1..Len(es) :
          LET v == es[i].value
          IN  /\ (v.type = "Table" /\ v.syntax.kind # "INLINE_TABLE")
                    => InSourceOrder(v.entries, path \o keys_str(es[i].key), from, to)
              /\ (v.type = "Array" /\ v.tables) =>
                    \A n \in 1..Len(v.items) :
                        /\ n < Len(v.items) => ItemFrom(v.items[n]) <= ItemFrom(v.items[n + 1])
                        /\ ItemFrom(v.items[n]) > 0 =>
                              InSourceOrder(v.items[n].entries, path \o keys_str(es[i].key),
                                            ItemFrom(v.items[n]),
                                            IF n < Len(v.items) /\ ItemFrom(v.items[n + 1]) > 0
                                            THEN ItemFrom(v.items[n + 1]) - 1 ELSE to)

\* C19: for a document lifted and merged without errors, the root entries
\* are in the order in which their first key segment first occurs in the
\* source, an entry keeps the place of its first occurrence when later
\* entries are merged into it, and the entries merged into one table are in
\* their source order.
C19_OrderPreserved ==
    (Returned /\ Len(root_errors) = 0) =>
        InSourceOrder(final_entries, <<>>, 1, Len(children(doc)))


\* a.x, b, a.y: the third entry is merged into the table of the first one,
\* which stays in front of the second.
C19_Witness ==
    /\ Returned
    /\ Len(root_errors) = 0
    /\ Len(children(doc)) = 3
    /\ Len(final_entries) = 2
    /\ final_entries[1].value.type = "Table"
    /\ Len(final_entries[1].value.entries) = 2
    /\ Len(SourceKeysIn(1, 3)) = 3
    /\ Rank(keys_str(final_entries[2].key), 1, 3) = 2
    /\ IsPrefixStr(keys_str(final_entries[1].key), SourceKeysIn(1, 3)[3])
    /\ \E c \in merge_calls : c.tag = "true"


\* The node the loop has just visited.
Visited == children(doc')[Len(children(doc'))]

\* C20: the iteration of the lift loop for a table header or array-of-tables
\* header without a key child records the spanned error "table has no key"
\* with the header's range, inserts nothing, and leaves the current prefix
\* as it was.
C20_HeaderWithoutKey ==
    [][(/\ pc = "lift"
        /\ Len(children(doc')) > Len(children(doc))
        /\ Visited.kind \in HeaderKinds
        /\ ~IsSome(first_child(Visited)))
       => /\ errors' = Append(errors, Spanned(<<range_start(Visited), range_end(Visited)>>,
                                              "table has no key"))
          /\ entries' = entries
          /\ prefix' = prefix
          /\ prefixes' = prefixes
          /\ tables' = tables]_vars

\* The same iteration without the error: nothing at all changes but the
\* position in the document.
C20_HeaderWithoutKeySkipped ==
    [][(/\ pc = "lift"
        /\ Len(children(doc')) > Len(children(doc))
        /\ Visited.kind \in HeaderKinds
        /\ ~IsSome(first_child(Visited)))
       => UNCHANGED <<errors, entries, prefix, prefixes, tables>>]_vars


\* The entries the lift pass has inserted for the accepted [[k]] headers
\* with the segments `ks`, in insertion order.
AcceptedArrayHeaders(ks) ==
    SelectSeq(entries, LAMBDA x : /\ x.e.syntax.kind = "TABLE_ARRAY_HEADER"
                                  /\ x.e.value.type = "Table"
                                  /\ x.e.value.syntax = x.e.syntax
                                  /\ keys_str(x.k) = ks)

\* The header was refused because an entry that is no array of tables has
\* its key.
RefusedArrayHeader(n) ==
    \E i \in 1..Len(errors) :
        /\ errors[i].type = "ExpectedTableArray"
        /\ Some(errors[i].target.syntax) = first_child(n)
        /\ range_start(errors[i].key.syntax) < range_start(errors[i].target.syntax)

\* The [[k]] headers of the source with the segments `ks` that were not
\* refused, in source order.
ArrayHeadersOf(ks) ==
    SelectSeq(children(doc), LAMBDA n : /\ n.kind = "TABLE_ARRAY_HEADER"
                                        /\ HeaderSegs(n) = ks
                                        /\ ~RefusedArrayHeader(n))

\* C21: during the lift pass the accepted [[k]] headers of one key carry the
\* indices 0, 1, 2, ... in source order, each is registered in tables under
\* its index, and the registry was never indexed beyond its length.
C21_ArrayHeaderIndices ==
    /\ pc # "panic"
    /\ pc = "lift" =>
          \A x \in Range(entries) :
              LET hs == AcceptedArrayHeaders(keys_str(x.k))
              IN  \A i \in 1..Len(hs) :
                      /\ Len(hs) = Len(ArrayHeadersOf(keys_str(x.k)))
                      /\ hs[i].e.syntax = ArrayHeadersOf(keys_str(x.k))[i]
                      /\ hs[i].k.index = i - 1
                      /\ hs[i].e.key.index = i - 1
                      /\ hs[i].k.index < Len(tables)
                      /\ \E j \in 1..Len(tables[hs[i].k.index + 1]) :
                            key_eq(tables[hs[i].k.index + 1][j], hs[i].k)

\* [[a]] three times: indices 0, 1, 2 and a registry of three lists.
C21_Witness ==
    /\ pc = "lift"
    /\ Len(AcceptedArrayHeaders(<<A>>)) = 3
    /\ Len(tables) = 3


\* The loop has just visited a header that has a key.
VisitedHeader ==
    /\ pc = "lift"
    /\ Len(children(doc')) > Len(children(doc))
    /\ Visited.kind \in HeaderKinds
    /\ IsSome(first_child(Visited))

\* The most recently inserted entry with the segments of `key`; 0 if none.
LastWithKey(key) ==
    LET same == {i \in 1..Len(entries) : keys_str(entries[i].k) = keys_str(key)}
    IN  IF same = {} THEN 0 ELSE CHOOSE i \in same : \A j \in same : j <= i

IsArrayHeaderEntry(e) == e.value.type = "Table" /\ e.value.array

\* The errors the iteration has pushed.
Pushed == SubSeq(errors', Len(errors) + 1, Len(errors'))

\* What C22 requires of the iteration for the header with `key` that meets
\* the entry at position `at`.
ClashOutcome(key, at) ==
    LET existing == entries[at].e
        new_array == Visited.kind = "TABLE_ARRAY_HEADER"
        clash == SelectSeq(Pushed, LAMBDA err : err.type \in {"ExpectedTableArray", "DuplicateKey"})
    IN  /\ entries' = entries
        /\ Len(clash) = 1
        /\ Len(Pushed) >= 1 /\ Pushed[1] = clash[1]
        /\ (new_array # IsArrayHeaderEntry(existing)) => clash[1].type = "ExpectedTableArray"
        /\ (~new_array /\ ~IsArrayHeaderEntry(existing))
              => clash[1] = DuplicateKey(existing.key, key)
        /\ IsSome(prefix') /\ key_eq(Unwrap(prefix'), key)
        /\ Unwrap(prefix').syntax = key.syntax

\* C22: a header whose key has the segments of an already inserted entry,
\* the two not both being array-of-tables headers, is not inserted; one error
\* is recorded for the clash, ExpectedTableArray when exactly one of the two
\* is an array-of-tables header and DuplicateKey{first: existing, second: new}
\* when neither is; the current prefix becomes the refused header's key.
C22_HeaderClash ==
    [][VisitedHeader =>
          LET key == HeaderKey(Visited)
              at == LastWithKey(key)
          IN  (/\ at # 0
               /\ ~(Visited.kind = "TABLE_ARRAY_HEADER" /\ IsArrayHeaderEntry(entries[at].e)))
              => ClashOutcome(key, at)]_vars


\* [a] written twice and [[a]] written after an entry a: the last header
\* is refused with one error and is the current prefix.
C22_Witness ==
    /\ pc = "lift"
    /\ Len(children(doc)) >= 2
    /\ LET h == children(doc)[Len(children(doc))]
       IN  /\ h.kind \in HeaderKinds
           /\ IsSome(first_child(h))
           /\ \A i \in 1..Len(entries) : entries[i].e.syntax # h
           /\ Len(errors) = 1
           /\ errors[1].type \in {"DuplicateKey", "ExpectedTableArray"}
           /\ IsSome(prefix)
           /\ Some(Unwrap(prefix).syntax) = first_child(h)


\* The loop has just visited an entry written under a header.
VisitedEntryUnderHeader ==
    /\ pc = "lift"
    /\ Len(children(doc')) > Len(children(doc))
    /\ Visited.kind = "ENTRY"
    /\ IsSome(EntryNode_cast(Visited))
    /\ IsSome(prefix)

\* The keys of the headers registered at the index of the current header,
\* other than the current one, that extend the current header's key and
\* start the full key of the entry with `key`.
DefinedAbove(key) ==
    LET p == Unwrap(prefix)
        full == keys_str(p) \o keys_str(key)
        registered == IF p.index < Len(tables) THEN tables[p.index + 1] ELSE <<>>
    IN  {q \in Range(registered) :
            /\ q.syntax # p.syntax
            /\ Len(keys_str(q)) > Len(keys_str(p))
            /\ IsPrefixStr(keys_str(p), keys_str(q))
            /\ IsPrefixStr(keys_str(q), full)}

\* C23: an entry written under the current header whose key writes into a
\* table that another, earlier header at the same index has defined is
\* refused with TopLevelTableDefined{table: that header's key, key: the
\* entry's key}; the flat map and the prefix list stay as they were.
C23_TopLevelTableDefined ==
    [][VisitedEntryUnderHeader =>
          LET key == Unwrap(EntryNode_cast(Visited)).key
          IN  DefinedAbove(key) # {} =>
                  /\ \E q \in DefinedAbove(key) :
                        errors' = Append(errors, TopLevelTableDefined(q, key))
                  /\ entries' = entries
                  /\ prefixes' = prefixes]_vars


\* C24: for every entry of the flat map that is no array-of-tables header
\* and has index 0, and every array-of-tables header inserted after it whose
\* key starts the entry's full key, the returned errors hold
\* ExpectedTableArray{target: the header's key, key: the entry's key}.
C24_TableBeforeArrayOfTables ==
    Returned =>
        \A i \in 1..Len(entries), j \in 1..Len(entries) :
            (/\ i < j
             /\ entries[i].k.index = 0
             /\ ~(entries[i].e.value.type = "Table" /\ entries[i].e.value.array)
             /\ entries[j].e.value.type = "Table" /\ entries[j].e.value.array
             /\ entries[j].k.index = 0
             /\ IsPrefixStr(keys_str(entries[j].k), keys_str(entries[i].k)))
            => \E n \in 1..Len(root_errors) :
                  /\ root_errors[n].type = "ExpectedTableArray"
                  /\ keys_str(root_errors[n].target) = keys_str(entries[j].k)
                  /\ root_errors[n].key.syntax = entries[i].e.key.syntax


\* C25: after every top-level child the lift loop has processed, prefixes
\* is as long as the flat map and its i-th element is the prefix under which
\* the i-th entry was inserted: None for a header, the key of the header the
\* entry is written under for an entry.
C25_PrefixesMatchEntries ==
    pc = "lift" =>
        /\ Len(prefixes) = Len(entries)
        /\ \A i \in 1..Min(Len(prefixes), Len(entries)) :
              IF entries[i].e.syntax.kind \in HeaderKinds
              THEN prefixes[i] = None
              ELSE IF IsSome(prefixes[i])
              THEN keys_str(entries[i].k)
                       = keys_str(Unwrap(prefixes[i])) \o keys_str(entries[i].e.key)
              ELSE keys_str(entries[i].k) = keys_str(entries[i].e.key)


\* ---------------------------------------------------------------------
\* Documents of one entry with a long dotted key, alone or under a header.

\* The longest dotted key of an entry (the test `asd` has six segments).
MaxSegments == 6

RECURSIVE KeysOfLen(_)
KeysOfLen(n) ==
    IF n = 0 THEN {<<>>}
    ELSE {Append(k, s) : k \in KeysOfLen(n - 1), s \in {A, B}}

LongKeys == UNION {KeysOfLen(n) : n \in 1..MaxSegments}

LongValues == {IntSrc(<<"1">>), ArrSrc(<<IntSrc(<<"1">>)>>),
               InlineSrc(<<EntSrc(<<A>>, IntSrc(<<"1">>))>>)}

LiftHeaderLong ==
    /\ pc = "lift"
    /\ Len(children(doc)) = 0
    /\ \E kind \in HeaderKinds, segs \in {<<A>>, <<A, B>>} :
          Lift(SynHeader(kind, segs, root_end), header_step(SynHeader(kind, segs, root_end)))

LiftEntryLong ==
    /\ pc = "lift"
    /\ \A i \in 1..Len(children(doc)) : children(doc)[i].kind # "ENTRY"
    /\ \E k \in LongKeys, v \in LongValues :
          Lift(SynEntry(EntSrc(k, v), root_end), entry_step(SynEntry(EntSrc(k, v), root_end)))

NextLong == LiftHeaderLong \/ LiftEntryLong \/ Finish

SpecLong == Init /\ [][NextLong]_vars

\* The entry `e` is keyed by the first of `segs`, and its value is the chain
\* of pseudo-tables for the other segments, one entry each, that ends in the
\* value written by `written`.
RECURSIVE IsChain(_, _, _)
IsChain(e, segs, written) ==
    /\ keys_str(e.key) = <<segs[1]>>
    /\ key_count(e.key) = 1
    /\ IF Len(segs) = 1
       THEN /\ e.value = Unwrap(EntryNode_cast(written)).value
            /\ e.syntax = written
       ELSE /\ e.value.type = "Table"
            /\ e.value.pseudo
            /\ Len(e.value.entries) = 1
            /\ IsChain(e.value.entries[1], Tail(segs), written)

\* C26: the DOM of a document made of one entry with a dotted key of n
\* segments is built without panic, and EntryNode::normalize turns the
\* entry into one keyed by the first segment, over n - 1 nested pseudo-tables
\* of one entry each, keyed by the next segments in order, with the value
\* as written in the innermost.
C26_NormalizeChain ==
    /\ pc # "panic"
    /\ (Returned /\ Len(children(doc)) = 1 /\ children(doc)[1].kind = "ENTRY") =>
          /\ Len(root_errors) = 0
          /\ Len(final_entries) = 1
          /\ EntryNode_normalize(entries[1].e) = final_entries[1]
          /\ IsChain(final_entries[1], keys_str(entries[1].k), children(doc)[1])

\* A six-segment key, normalized.
C26_Witness ==
    /\ Returned
    /\ Len(children(doc)) = 1
    /\ Len(entries) = 1
    /\ key_count(entries[1].k) = MaxSegments
    /\ Len(final_entries) = 1
    /\ key_count(final_entries[1].key) = 1


\* C27: every key obtained from a cast key by outer, inner, prefix, last,
\* with_prefix, without_prefix and with_index has at least one visible
\* segment, and its masks and its visible count add up to the length of the
\* ident vector: the slice idents() takes is in range and has
\* mask_visible elements, and the operands of every subtraction
\* (mask_visible - 1, key_count - 1, idents.len() - mask_right) are in order.
C27_MaskInvariant ==
    pc = "keys" =>
        \A i \in 1..3 :
            LET k == keys.k[i]
            IN  /\ k.mask_visible >= 1
                /\ k.mask_left >= 0
                /\ k.mask_right >= 0
                /\ k.mask_left + k.mask_visible + k.mask_right = Len(k.idents)
                /\ Len(idents(k)) = k.mask_visible
                /\ Len(keys_str(k)) = key_count(k)

\* A key of three idents rebuilt by with_prefix and cut down to its first
\* segment by outer.
C27_Witness ==
    /\ pc = "keys"
    /\ Len(keys.k[1].idents) = 3
    /\ keys.k[1].mask_right = 2
    /\ keys.k[1].mask_visible = 1


\* C28: the entry arm pushes TopLevelTableDefined only if a header other
\* than the current one has a key that starts the entry's full key; an entry
\* whose own key merely starts with the name of an unrelated earlier header
\* is inserted without error.
C28_TopLevelTableDefinedOnlyForPrefix ==
    [][VisitedEntryUnderHeader =>
          LET key == Unwrap(EntryNode_cast(Visited)).key
              full == keys_str(Unwrap(prefix)) \o keys_str(key)
          IN  (Len(errors') > Len(errors) /\ Pushed[1].type = "TopLevelTableDefined")
              => \E i \in 1..Len(tables) : \E j \in 1..Len(tables[i]) :
                    /\ tables[i][j].syntax # Unwrap(prefix).syntax
                    /\ IsPrefixStr(keys_str(tables[i][j]), full)]_vars


\* ------------------------------------------------------------------- C29

\* KeyNode::full_key_string
full_key_string(k) ==
    IF Len(keys_str(k)) = 0 THEN <<>>
    ELSE Concat([i \in 1..(2 * Len(keys_str(k)) - 1) |->
                    IF i % 2 = 1 THEN keys_str(k)[(i + 1) \div 2] ELSE <<".">>])

\* impl Display for Error: the message as the sequence of its pieces, the
\* fixed text of the variant and what the two keys are formatted to.
Error_fmt(e) ==
    IF e.type = "DuplicateKey"
    THEN <<"duplicate keys", full_key_string(e.first), KeyNode_text_range(e.first),
           full_key_string(e.second), KeyNode_text_range(e.second)>>
    ELSE IF e.type = "TopLevelTableDefined"
    THEN <<"full table definition conflicts with dotted keys",
           full_key_string(e.table), KeyNode_text_range(e.table),
           full_key_string(e.key), KeyNode_text_range(e.key)>>
    ELSE IF e.type = "Spanned"
    THEN <<e.message, e.range>>
    ELSE <<CASE e.type = "ExpectedTable" -> "expected to be a table"
             [] e.type = "ExpectedTableArray" -> "conflicts with array of tables"
             [] OTHER -> "inline tables cannot be modified",
           full_key_string(e.target), KeyNode_text_range(e.target),
           full_key_string(e.key), KeyNode_text_range(e.key)>>

\* Value::try_from and serde_json::to_string_pretty for a DOM without
\* errors: the document as its (path, value) pairs.
to_string_pretty(es) == EntryPairs(es, <<>>)

dom_reply_both(errs) ==
    [text |-> Some(<<>>), errors |-> Some([i \in 1..Len(errs) |-> Error_fmt(errs[i])])]

\* The response for a source with parse errors.
parse_reply(errs) == [text |-> None, errors |-> Some(errs)]

\* The response for a DOM with errors.
dom_reply(errs) ==
    [text |-> None, errors |-> Some([i \in 1..Len(errs) |-> Error_fmt(errs[i])])]

\* The response for a DOM without errors.
text_reply(es) == [text |-> Some(to_string_pretty(es)), errors |-> None]

\* The handler has been called and has parsed nothing yet.
JsonInit ==
    /\ doc = <<>>
    /\ entries = <<>>
    /\ prefixes = <<>>
    /\ prefix = None
    /\ tables = <<>>
    /\ errors = <<>>
    /\ final_entries = <<>>
    /\ root_errors = <<>>
    /\ merge_calls = {}
    /\ keys = <<>>
    /\ handler = [stage |-> "called", parse_errors |-> <<>>, response |-> None]
    /\ world = <<>>
    /\ tasks = <<>>
    /\ pc = "json"

\* taplo::parser::parse and the test of parse.errors: with errors the
\* handler returns them, without it goes on to parse.into_dom(). The parser
\* reports no error, one or two.
JsonParse ==
    /\ pc = "json"
    /\ handler.stage = "called"
    /\ \E errs \in {<<>>, <<"expected value">>,
                   <<"expected value", "unexpected token">>} :
          /\ handler' = IF errs # <<>>
                        THEN [stage |-> "replied", parse_errors |-> errs,
                              response |-> Some(parse_reply(errs))]
                        ELSE [stage |-> "dom", parse_errors |-> errs, response |-> None]
          /\ pc' = IF errs # <<>> THEN "json" ELSE "lift"
    /\ UNCHANGED <<doc, entries, prefixes, prefix, tables, errors, final_entries,
                   root_errors, merge_calls, keys, world, tasks>>

\* The documents toml_to_json is called with have up to two children.
JsonChildren == 2

JsonLiftHeader ==
    /\ pc = "lift"
    /\ handler.stage = "dom"
    /\ Len(children(doc)) < JsonChildren
    /\ \E kind \in HeaderKinds, segs \in HeaderKeys :
          Lift(SynHeader(kind, segs, root_end), header_step(SynHeader(kind, segs, root_end)))

JsonLiftEntry ==
    /\ pc = "lift"
    /\ handler.stage = "dom"
    /\ Len(children(doc)) < JsonChildren
    /\ \E src \in EntrySources :
          Lift(SynEntry(src, root_end), entry_step(SynEntry(src, root_end)))

\* The test of dom.errors() and the two responses after it.
JsonReply ==
    /\ pc = "done"
    /\ handler.stage = "dom"
    /\ handler' = [handler EXCEPT
                      !.stage = "replied",
                      !.response = Some(IF root_errors # <<>> THEN dom_reply(root_errors)
                                        ELSE text_reply(final_entries))]
    /\ UNCHANGED <<doc, entries, prefixes, prefix, tables, errors, final_entries,
                   root_errors, merge_calls, keys, world, tasks, pc>>

\* parse.into_dom() ends with the code after the loop of RootNode::cast.
JsonNext ==
    \/ JsonParse
    \/ JsonLiftHeader
    \/ JsonLiftEntry
    \/ (handler.stage = "dom" /\ Finish)
    \/ JsonReply

JsonSpec == JsonInit /\ [][JsonNext]_vars

\* C29: the response of toml_to_json has exactly one of text and errors;
\* with parse errors it has exactly those and the DOM was never built;
\* without parse errors and with DOM errors it has exactly the DOM errors,
\* formatted; and it has the text if and only if both lists are empty.
C29_ExactlyOneOfTextAndErrors ==
    handler.stage = "replied" =>
        LET r == Unwrap(handler.response)
            parsed == handler.parse_errors
        IN  /\ IsSome(r.text) # IsSome(r.errors)
            /\ parsed # <<>> =>
                  /\ r.text = None
                  /\ r.errors = Some(parsed)
                  /\ pc = "json"
                  /\ entries = <<>> /\ final_entries = <<>> /\ root_errors = <<>>
            /\ (parsed = <<>> /\ root_errors # <<>>) =>
                  /\ r.text = None
                  /\ pc = "done"
                  /\ Len(Unwrap(r.errors)) = Len(root_errors)
                  /\ \A i \in 1..Len(root_errors) :
                        Unwrap(r.errors)[i] = Error_fmt(root_errors[i])
            /\ IsSome(r.text) <=> (parsed = <<>> /\ root_errors = <<>>)
            /\ IsSome(r.text) => Unwrap(r.text) = to_string_pretty(final_entries)

\* The reply to `a = 1\na = 2\n`: no parse error, one DOM error, no text.
C29_Witness ==
    /\ handler.stage = "replied"
    /\ handler.parse_errors = <<>>
    /\ Len(root_errors) = 1
    /\ root_errors[1].type = "DuplicateKey"
    /\ Unwrap(handler.response).text = None
    /\ Len(Unwrap(Unwrap(handler.response).errors)) = 1


\* ------------------------------------------------------------------- C30

\* The schemas: one built-in schema, which World holds from the start and
\* which update_configuration only ever looks up, and one schema in a file.
Builtin == "taplo://taplo.toml"
FileSchema == "file:///schema.json"

\* The number of update_configuration calls: the one spawned by initialize
\* and those made by configuration_change.
MaxCalls == 2

\* The server after initialize has spawned the first call: no call has sent
\* its request yet, and no completion request has been answered.
WorldInit ==
    /\ doc = <<>>
    /\ entries = <<>>
    /\ prefixes = <<>>
    /\ prefix = None
    /\ tables = <<>>
    /\ errors = <<>>
    /\ final_entries = <<>>
    /\ root_errors = <<>>
    /\ merge_calls = {}
    /\ keys = <<>>
    /\ handler = <<>>
    /\ world = [enabled |-> FALSE, schemas |-> {Builtin}, schema_associations |-> {}]
    /\ tasks = [calls |-> [t \in 1..MaxCalls |->
                              [at |-> "spawned", before |-> {}, schemas |-> {},
                               associations |-> {}]],
                completions |-> {}]
    /\ pc = "world"

\* The call sends workspace/configuration and waits for the response.
UcRequest(t) ==
    /\ pc = "world"
    /\ tasks.calls[t].at = "spawned"
    /\ tasks' = [tasks EXCEPT !.calls[t].at = "requested",
                              !.calls[t].before = world.schemas]
    /\ UNCHANGED world
    /\ UNCHANGED <<doc, entries, prefixes, prefix, tables, errors, final_entries,
                   root_errors, merge_calls, keys, handler, pc>>

\* The response is an error: panic!(e).
UcPanic(t) ==
    /\ pc = "world"
    /\ tasks.calls[t].at = "requested"
    /\ tasks' = [tasks EXCEPT !.calls[t].at = "panicked"]
    /\ UNCHANGED world
    /\ UNCHANGED <<doc, entries, prefixes, prefix, tables, errors, final_entries,
                   root_errors, merge_calls, keys, handler, pc>>

\* The response has arrived: from the first lock().await to drop(w), or to
\* the return when schema support is not enabled.
UcConfigure(t) ==
    /\ pc = "world"
    /\ tasks.calls[t].at = "requested"
    /\ \E enabled \in BOOLEAN, assoc \in SUBSET {Builtin, FileSchema} :
          IF ~enabled
          THEN /\ world' = [world EXCEPT !.enabled = FALSE]
               /\ tasks' = [tasks EXCEPT !.calls[t].at = "finished"]
          ELSE /\ world' = [enabled |-> TRUE, schemas |-> {}, schema_associations |-> {}]
               /\ tasks' = [tasks EXCEPT !.calls[t].at = "loading",
                                         !.calls[t].schemas = world.schemas,
                                         !.calls[t].associations = assoc]
    /\ UNCHANGED <<doc, entries, prefixes, prefix, tables, errors, final_entries,
                   root_errors, merge_calls, keys, handler, pc>>

\* The loop over the configured associations, then from the second
\* lock().await to the end: `valid` are the associations whose pattern is a
\* regular expression, `loaded` the schema files that were read and verified.
UcStore(t) ==
    /\ pc = "world"
    /\ tasks.calls[t].at = "loading"
    /\ \E valid \in SUBSET tasks.calls[t].associations :
       \E loaded \in SUBSET ((valid \cap {FileSchema}) \ tasks.calls[t].schemas) :
          /\ world' = [world EXCEPT
                          !.schema_associations = @ \cup valid,
                          !.schemas = tasks.calls[t].schemas \cup loaded]
          /\ tasks' = [tasks EXCEPT !.calls[t].at = "finished",
                                    !.calls[t].schemas = @ \cup loaded]
    /\ UNCHANGED <<doc, entries, prefixes, prefix, tables, errors, final_entries,
                   root_errors, merge_calls, keys, handler, pc>>

\* completion: under the lock it reads the configuration and looks the
\* schema of the document up; `completions` are the schema maps it has seen.
Completion ==
    /\ pc = "world"
    /\ world.enabled
    /\ world.schemas \notin tasks.completions
    /\ tasks' = [tasks EXCEPT !.completions = @ \cup {world.schemas}]
    /\ UNCHANGED world
    /\ UNCHANGED <<doc, entries, prefixes, prefix, tables, errors, final_entries,
                   root_errors, merge_calls, keys, handler, pc>>

WorldNext ==
    \/ \E t \in 1..MaxCalls : UcRequest(t)
    \/ \E t \in 1..MaxCalls : UcPanic(t)
    \/ \E t \in 1..MaxCalls : UcConfigure(t)
    \/ \E t \in 1..MaxCalls : UcStore(t)
    \/ Completion

WorldSpec == WorldInit /\ [][WorldNext]_vars

\* The call `t` finishes in this step.
Finishes(t) == tasks.calls[t].at # "finished" /\ tasks'.calls[t].at = "finished"

C30_DisabledLeavesUnchanged ==
    [][\A t \in 1..MaxCalls :
          /\ (Finishes(t) /\ tasks.calls[t].at = "requested") =>
                /\ world'.schemas = world.schemas
                /\ world'.schema_associations = world.schema_associations
          /\ (Finishes(t) /\ tasks.calls[t].at = "loading") =>
                tasks.calls[t].schemas \subseteq world'.schemas]_vars

\* A call has finished and the built-in schema is gone.
C30_SchemaLost ==
    /\ pc = "world"
    /\ \E t \in 1..MaxCalls :
          /\ tasks.calls[t].at = "finished"
          /\ Builtin \in tasks.calls[t].before
    /\ \A t \in 1..MaxCalls : tasks.calls[t].at = "finished"
    /\ Builtin \notin world.schemas

====
